---- MODULE Spec2Model ----
(***************************************************************************)
(* A model of the TAD chat mesh (src/tad): the gossip engine               *)
(* (network/gossip.py), the node orchestrator (node.py), the channel key   *)
(* table (crypto/e2ee.py), the SQLite store (persistence/database.py) and  *)
(* the peer links (network/connection.py).                                 *)
(*                                                                         *)
(* Python dicts are TLA+ functions whose DOMAIN is the set of keys that    *)
(* are present, so a missing key is a missing key.  Cryptography is        *)
(* symbolic: a signature is the pair (signer, signed payload), an AES-GCM  *)
(* ciphertext the triple (key, nonce, plaintext), a sealed box the pair    *)
(* (recipient, key).                                                       *)
(***************************************************************************)
EXTENDS Integers, Sequences, FiniteSets, TLC

VARIABLES
    subscribed_channels,  \* TADNode.subscribed_channels, shared with GossipProtocol
    seen_messages,        \* GossipProtocol.seen_messages (deque with maxlen)
    channel_keys,         \* E2EEManager.channel_keys: dict channel_id -> key
    db_channels,          \* table channels:        channel_id -> row
    db_members,           \* table channel_members: <<channel_id, node_id>> -> role
    db_messages,          \* table messages:        the rows, in rowid order
    peer_writers,         \* ConnectionManager.peer_writers: dict peer -> its connection
    connections,          \* per node: the connections it has opened and not closed
    discovered_peers,     \* DiscoveryService.discovered_peers: its keys, in insertion order
    tasks,                \* per node: the coroutines on its event loop that have not ended
    net,                  \* frames written to a link and not yet read, per link, FIFO
    replies,              \* per link: the replies its reader wrote back, not yet read
    clock,                \* datetime.now(): one tick per signed message
    calls,                \* number of API calls and outside frames so far
    surfaced,             \* calls of the UI callback TADNode.on_message_received, per node
    handled,              \* per node: the frames the channel filter discarded (filtered),
                          \* the envelopes taken as new, received or own (accepted), and
                          \* the peers a frame was read from whose signature or
                          \* ciphertext did not verify (failed), and the msg_ids of
                          \* the envelopes passed on to the peers (forwarded), and the
                          \* peers a connection to which has been closed (lost)
    last                  \* the operation of the last step and what it did

vars == <<subscribed_channels, seen_messages, channel_keys, db_channels, db_members,
          db_messages, peer_writers, connections, discovered_peers, tasks, net, replies,
          clock, calls, surfaced, handled, last>>

----------------------------------------------------------------------------
(* Bounds of the model *)

MaxCalls == 3          \* API calls on the nodes plus frames of the outside peer
HighWater == 3         \* unread frames a connection buffers before drain() waits
                       \* (64 KiB in asyncio, scaled down)
SEEN_MESSAGES_MAX_SIZE == 2   \* maxlen of the seen deque (1000 in the program, scaled down)

(* Program constants *)

INITIAL_TTL == 3

Nodes == {"A", "B", "C"}
Callers == {"A", "B"}  \* the nodes whose API is called; C only receives
Outsider == "X"        \* a peer that is not one of the modelled nodes
Entry == "B"           \* the node the outside peer is connected to
Channels == {"#general", "#secret"}
Texts == {"hi"}
PrivateChannels == {"#secret"}   \* the channels create_channel and invite are called on
ChannelTypes == {"public", "private"}

Links == {l \in (Nodes \cup {Outsider}) \X Nodes : l[1] # l[2]}

----------------------------------------------------------------------------
(* Python values *)

EmptyDict == [k \in {} |-> 0]
Get(d, k, default) == IF k \in DOMAIN d THEN d[k] ELSE default
Put(d, k, v) == [j \in (DOMAIN d) \cup {k} |-> IF j = k THEN v ELSE d[j]]
Update(d, e) == [j \in (DOMAIN d) \cup (DOMAIN e) |-> IF j \in DOMAIN e THEN e[j] ELSE d[j]]
Del(d, k) == [j \in (DOMAIN d) \ {k} |-> d[j]]
Contains(s, x) == \E i \in 1..Len(s) : s[i] = x

NoneStr == "None"                  \* None where a string is expected
NoneVal == [kind |-> "none"]       \* None where a content, key or plaintext is expected
Str(t) == [kind |-> "str", text |-> t]

\* list.append(x): a seen list without maxlen.
list_append(q, x) == Append(q, x)

\* deque(maxlen=SEEN_MESSAGES_MAX_SIZE).append(x)
deque_append(q, x) ==
    IF Len(q) >= SEEN_MESSAGES_MAX_SIZE
    THEN Append(SubSeq(q, Len(q) - SEEN_MESSAGES_MAX_SIZE + 2, Len(q)), x)
    ELSE Append(q, x)

----------------------------------------------------------------------------
(* identity.py *)

\* An Identity that carries a key pair for sealed boxes as well.
Identity_with_encryption_key(n) ==
    [username |-> n, signing_key |-> n, verify_key |-> n, verify_key_hex |-> n,
     encryption_private_key |-> n]

\* The attributes Identity.__init__ sets.
Identity(n) == [username |-> n, signing_key |-> n, verify_key |-> n, verify_key_hex |-> n]

\* IdentityManager.sign_data: an Ed25519 signature of `data` by `signer`.
sign_data(signer, data) == [signer |-> signer, over |-> data]

\* IdentityManager.verify_signature
verify_signature(data, signature, public_key_hex) ==
    /\ "signer" \in DOMAIN signature
    /\ signature.signer = public_key_hex
    /\ signature.over = data

----------------------------------------------------------------------------
(* crypto/e2ee.py *)

\* E2EEManager.generate_channel_key: os.urandom(32), a key nobody else has.
generate_channel_key(n, c) == [kind |-> "key", len |-> 32, by |-> n, ch |-> c]

has_channel_key(keys, channel_id) == channel_id \in DOMAIN keys
get_channel_key(keys, channel_id) == Get(keys, channel_id, NoneVal)

\* E2EEManager.encrypt_message: returns <<ciphertext, nonce>>.
encrypt_message(channel_key, plaintext, nonce) ==
    <<[kind |-> "ct", key |-> channel_key, nonce |-> nonce, text |-> plaintext.text], nonce>>

\* decrypt_message without the authentication tag: any key and nonce give a text.
decrypt_message_unauthenticated(channel_key, ciphertext, nonce) ==
    IF ciphertext.kind \in {"ct", "str"} THEN Str(ciphertext.text) ELSE NoneVal

\* E2EEManager.decrypt_message: the plaintext, or None when anything fails.
decrypt_message(channel_key, ciphertext, nonce) ==
    IF /\ ciphertext.kind = "ct"
       /\ ciphertext.key = channel_key
       /\ ciphertext.nonce = nonce
    THEN Str(ciphertext.text)
    ELSE NoneVal

\* E2EEManager.encrypt_key_for_recipient: SealedBox(recipient).encrypt(channel_key)
encrypt_key_for_recipient(recipient_public_key, channel_key) ==
    [kind |-> "sealed", to |-> recipient_public_key, key |-> channel_key]

\* E2EEManager.decrypt_key_from_sender: the key, or None when the box does not open.
decrypt_key_from_sender(private_key_of, encrypted_key) ==
    IF /\ encrypted_key.kind = "sealed"
       /\ encrypted_key.to = private_key_of
       /\ encrypted_key.key.len = 32
    THEN encrypted_key.key
    ELSE NoneVal

----------------------------------------------------------------------------
(* persistence/database.py.  `ns` is the state of one node:                *)
(* [sub, keys, ch, mem, msgs, ui] for subscribed_channels, channel_keys,   *)
(* the three tables and the UI callback log.                               *)

NodeOf(n) == [sub  |-> subscribed_channels[n],
              keys |-> channel_keys[n],
              ch   |-> db_channels[n],
              mem  |-> db_members[n],
              msgs |-> db_messages[n],
              ui   |-> surfaced[n]]

\* DatabaseManager.store_channel: INSERT OR REPLACE INTO channels.
store_channel(ns, channel_id, name, channel_type, owner_node_id) ==
    [ns EXCEPT !.ch = Put(@, channel_id,
        [name |-> IF name = NoneStr THEN channel_id ELSE name,
         type |-> channel_type,
         owner_node_id |-> owner_node_id])]

\* DatabaseManager.get_channel_info: the row, or None.
get_channel_info(ns, channel_id) == Get(ns.ch, channel_id, NoneVal)

\* DatabaseManager.add_channel_member: INSERT OR REPLACE INTO channel_members;
\* the foreign key needs the channel row (an IntegrityError is logged).
add_channel_member(ns, channel_id, node_id, role) ==
    IF channel_id \in DOMAIN ns.ch
    THEN [ns EXCEPT !.mem = Put(@, <<channel_id, node_id>>, role)]
    ELSE ns

\* INSERT INTO messages without OR IGNORE and without the primary key.
insert_always(rows, row) == Append(rows, row)

\* INSERT OR IGNORE INTO messages: msg_id is the PRIMARY KEY, a row whose msg_id
\* is in the table is not inserted.
insert_or_ignore(rows, row) ==
    IF \E i \in 1..Len(rows) : rows[i].msg_id = row.msg_id
    THEN rows
    ELSE Append(rows, row)

\* DatabaseManager.store_message: store_channel(channel_id) with its defaults,
\* then INSERT OR IGNORE INTO messages (msg_id, channel_id, sender_id, timestamp,
\* content, signature); is_encrypted keeps its column default 0 and the table has
\* no nonce column.  A content that is no string cannot be bound (dict) or breaks
\* NOT NULL (None): no row.
store_message(ns, message) ==
    LET payload == Get(message, "payload", EmptyDict)
        channel_id == Get(payload, "channel_id", "#general")
        content == Get(payload, "content", Str(""))
        row == [msg_id       |-> Get(message, "msg_id", 0),
                channel_id   |-> channel_id,
                sender_id    |-> Get(message, "sender_id", ""),
                timestamp    |-> Get(payload, "timestamp", 0),
                content      |-> content,
                signature    |-> Get(message, "signature", NoneVal),
                is_encrypted |-> FALSE]
        withChannel == store_channel(ns, channel_id, NoneStr, "public", NoneStr)
    IN  IF content.kind \in {"str", "ct"}
        THEN [withChannel EXCEPT !.msgs = insert_or_ignore(@, row)]
        ELSE withChannel

\* The return value of store_message: cursor.rowcount > 0.
store_message_inserted(ns, message) ==
    Len(store_message(ns, message).msgs) > Len(ns.msgs)

\* The columns of table messages (CREATE TABLE messages).
MessageColumns ==
    {"msg_id", "channel_id", "sender_id", "timestamp", "content", "signature",
     "is_encrypted", "created_at"}

Min(a, b) == IF a < b THEN a ELSE b
Reverse(q) == [i \in 1..Len(q) |-> q[Len(q) + 1 - i]]

\* The orders in which SELECT ... ORDER BY timestamp (DESC or ASC) may return the
\* rows with the indices `sel`: rows of equal timestamp come in any order.
OrderedBy(rows, sel, desc) ==
    LET k == Cardinality(sel)
    IN  {p \in [1..k -> sel] :
            /\ \A i, j \in 1..k : i # j => p[i] # p[j]
            /\ \A i \in 1..k : \A j \in (i + 1)..k :
                   IF desc THEN rows[p[i]].timestamp >= rows[p[j]].timestamp
                           ELSE rows[p[i]].timestamp <= rows[p[j]].timestamp}

\* The dict get_messages_for_channel makes of a row.
HistoryDict(row) ==
    [k \in {"msg_id", "channel_id", "sender_id", "timestamp", "content", "signature"}
        |-> row[k]]

\* get_messages_for_channel with messages.reverse() left out.
get_messages_newest_first(rows, channel_id, last_n) ==
    LET sel == {i \in 1..Len(rows) : rows[i].channel_id = channel_id}
        k == IF last_n < 0 THEN Cardinality(sel) ELSE Min(last_n, Cardinality(sel))
    IN  {[i \in 1..k |-> HistoryDict(rows[p[i]])] : p \in OrderedBy(rows, sel, TRUE)}

\* DatabaseManager.get_messages_for_channel: the lists it may return
\* (WHERE channel_id = ? ORDER BY timestamp DESC LIMIT ?, then reversed).
get_messages_for_channel(rows, channel_id, last_n) ==
    LET sel == {i \in 1..Len(rows) : rows[i].channel_id = channel_id}
        k == IF last_n < 0 THEN Cardinality(sel) ELSE Min(last_n, Cardinality(sel))
    IN  {Reverse([i \in 1..k |-> HistoryDict(rows[p[i]])]) :
            p \in OrderedBy(rows, sel, TRUE)}

\* The dict export_messages_to_json makes of a row.
ExportDict(row) ==
    [msg_id |-> row.msg_id, channel_id |-> row.channel_id, sender_id |-> row.sender_id,
     content |-> row.content, timestamp |-> row.timestamp, signature |-> row.signature,
     is_encrypted |-> row.is_encrypted, nonce |-> Get(row, "nonce", NoneVal)]

\* DatabaseManager.export_messages_to_json: the lists it may return.  The SELECT
\* names the column nonce; when the table has no such column sqlite3 raises
\* OperationalError, which is logged, and the result is [].
export_messages_to_json(rows, channel_id) ==
    LET sel == IF channel_id = NoneStr THEN 1..Len(rows)
               ELSE {i \in 1..Len(rows) : rows[i].channel_id = channel_id}
    IN  IF "nonce" \notin MessageColumns THEN {<<>>}
        ELSE {[i \in 1..Cardinality(sel) |-> ExportDict(rows[p[i]])] :
                 p \in OrderedBy(rows, sel, FALSE)}

\* DatabaseManager.import_messages_from_json: the store afterwards.
RECURSIVE import_messages_from_json(_, _)
import_messages_from_json(ns, messages) ==
    IF messages = <<>> THEN ns
    ELSE LET msg == Head(messages)
             channel_id == Get(msg, "channel_id", NoneStr)
             ensured == IF channel_id # NoneStr /\ get_channel_info(ns, channel_id) = NoneVal
                        THEN store_channel(ns, channel_id, channel_id, "public", NoneStr)
                        ELSE ns
             message_envelope ==
                 [msg_id |-> Get(msg, "msg_id", 0),
                  payload |-> [content |-> Get(msg, "content", NoneVal),
                               channel_id |-> channel_id,
                               timestamp |-> Get(msg, "timestamp", 0),
                               is_encrypted |-> Get(msg, "is_encrypted", FALSE),
                               nonce |-> Get(msg, "nonce", NoneVal)],
                  sender_id |-> Get(msg, "sender_id", ""),
                  signature |-> Get(msg, "signature", NoneVal)]
         IN  import_messages_from_json(store_message(ensured, message_envelope),
                                       Tail(messages))

----------------------------------------------------------------------------
(* node.py *)

\* TADNode.join_channel
join_channel(ns, channel_id) == [ns EXCEPT !.sub = @ \cup {channel_id}]

\* leave_channel discarding from a copy of the set (get_subscribed_channels()):
\* the set Gossip reads stays as it is.
leave_channel_on_copy(ns, channel_id) == ns

\* TADNode.leave_channel
leave_channel(ns, channel_id) == [ns EXCEPT !.sub = @ \ {channel_id}]

\* One call of the UI callback TADNode.on_message_received.
Shown(ns, via, env, shown) ==
    [ns EXCEPT !.ui = Append(@, [via |-> via, env |-> env, shown |-> shown])]

\* TADNode._handle_invite.  Reading self.identity.encryption_private_key raises
\* AttributeError when Identity has no such attribute; the caller logs it.
_handle_invite(ns, self, env, invite_payload) ==
    IF "encryption_private_key" \notin DOMAIN Identity(self)
    THEN ns
    ELSE
    LET channel_id == Get(invite_payload, "channel_id", NoneStr)
        channel_key == decrypt_key_from_sender(
                           Identity(self).encryption_private_key,
                           Get(invite_payload, "encrypted_key", NoneVal))
        keyed == [ns EXCEPT !.keys = Put(@, channel_id, channel_key)]
        recorded == store_channel(keyed, channel_id,
                                  Get(invite_payload, "channel_name", NoneStr),
                                  Get(invite_payload, "channel_type", NoneStr),
                                  NoneStr)
        member == add_channel_member(recorded, channel_id, self, "member")
        joined == join_channel(member, channel_id)
    IN  IF channel_key = NoneVal
        THEN ns
        ELSE Shown(joined, "system", env,
                   [payload |-> [content |-> Str("[SYSTEM] joined"),
                                 channel_id |-> channel_id,
                                 timestamp |-> 0],
                    sender_id |-> "System"])

\* The owner test reduced to "the channel is known".
is_owner_known_channel(channel_info, self) == channel_info # NoneVal

\* May this node invite to the channel?  (invite_peer_to_channel, step 1)
is_owner(channel_info, self) ==
    /\ channel_info # NoneVal
    /\ channel_info.owner_node_id = self

\* TADNode._on_gossip_message_received: [ns |-> the node afterwards,
\* message |-> the message dict afterwards].  message.copy() is a shallow copy:
\* callback_message["payload"] is message["payload"], so the assignments to it
\* change the message that is stored next and that Gossip goes on with.
_on_gossip_message_received(ns, self, message, via) ==
    LET payload == Get(message, "payload", EmptyDict)
        content == Get(payload, "content", NoneVal)
        channel_id == Get(payload, "channel_id", NoneStr)
        channel_info == get_channel_info(ns, channel_id)
    IN  IF content.kind = "dict" /\ Get(content, "type", "") = "INVITE"
        THEN [ns |-> IF Get(content, "target_node_id", NoneStr) = self
                     THEN _handle_invite(ns, self, message, content)
                     ELSE ns,
              message |-> message]
        ELSE IF has_channel_key(ns.keys, channel_id)
        THEN LET decrypted_content ==
                     decrypt_message(get_channel_key(ns.keys, channel_id), content,
                                     Get(payload, "nonce", 0))
                 mutated == [message EXCEPT !.payload =
                                Put(Put(payload, "content", decrypted_content),
                                    "is_encrypted", TRUE)]
             IN  IF decrypted_content = NoneVal
                 THEN [ns |-> ns, message |-> message]
                 ELSE [ns |-> Shown(store_message(ns, mutated), via, message,
                                    mutated.payload),
                       message |-> mutated]
        ELSE IF channel_info # NoneVal /\ channel_info.type = "private"
        THEN [ns |-> ns, message |-> message]
        ELSE [ns |-> Shown(store_message(ns, message), via, message, payload),
              message |-> message]

----------------------------------------------------------------------------
(* network/gossip.py *)

\* The msg_id of sign_message: sha256(payload_json:now:verify_key)[:16].  The
\* hash is taken as collision-free and `now` is different at every call, so the
\* tick names the id.
msg_id_hash(payload, now, verify_key_hex) == now

\* GossipProtocol.sign_message
sign_message(self, payload, now) ==
    [msg_id    |-> msg_id_hash(payload, now, Identity(self).verify_key_hex),
     payload   |-> payload,
     sender_id |-> Identity(self).verify_key_hex,
     signature |-> sign_data(Identity(self).signing_key, payload)]

\* An envelope of node A with the given msg_id, channel and timestamp, as
\* sign_message and broadcast_message make it.
sign_message_as(i, c, ts) ==
    LET payload == [channel_id |-> c, type |-> "chat_message", content |-> Str("hi"),
                    timestamp |-> ts]
    IN  sign_message("A", payload, i)

\* verify_message with the result of verify_signature ignored.
verify_message_fields_only(message) ==
    /\ "payload" \in DOMAIN message /\ message.payload # EmptyDict
    /\ "sender_id" \in DOMAIN message /\ message.sender_id # ""
    /\ "signature" \in DOMAIN message
    /\ "msg_id" \in DOMAIN message /\ message.msg_id # 0

\* GossipProtocol.verify_message: all four fields present and truthy, and the
\* signature is one of sender_id over the canonical payload.
verify_message(message) ==
    /\ "payload" \in DOMAIN message /\ message.payload # EmptyDict
    /\ "sender_id" \in DOMAIN message /\ message.sender_id # ""
    /\ "signature" \in DOMAIN message
    /\ "msg_id" \in DOMAIN message /\ message.msg_id # 0
    /\ verify_signature(message.payload, message.signature, message.sender_id)

\* The channel filter left out.
not_subscribed_never(sub, channel_id) == FALSE

\* The channel filter of handle_message:
\* channel_id and channel_id not in self.subscribed_channels
not_subscribed(sub, channel_id) == channel_id # NoneStr /\ channel_id \notin sub

\* The duplicate test left out.
is_duplicate_never(seen, msg_id) == FALSE

\* The duplicate test of _handle_chat_message: msg_id in self.seen_messages
is_duplicate(seen, msg_id) == Contains(seen, msg_id)

\* GossipProtocol.forward_message: the envelopes handed to _forward_to_peer for
\* every connected peer (none, or the one copy).
forward_message(message) ==
    LET payload == Get(message, "payload", EmptyDict)
        ttl == Get(payload, "ttl", 0)
        new_ttl == ttl - 1
    IN  IF new_ttl <= 0
        THEN <<>>
        ELSE <<Put(message, "payload", Put(payload, "ttl", new_ttl))>>

\* _handle_chat_message as a plain relay: every frame it is given is taken as
\* new and passed on to the peers as it is.
_handle_chat_message_relays(ns, seen, self, message) ==
    LET msg_id == Get(message, "msg_id", 0)
        r == _on_gossip_message_received(ns, self, message, "recv")
    IN  [ns   |-> r.ns,
         seen |-> deque_append(seen, msg_id),
         out  |-> <<message>>,
         disp |-> "accepted"]

\* GossipProtocol._handle_chat_message
_handle_chat_message(ns, seen, self, message) ==
    LET msg_id == Get(message, "msg_id", 0)
        r == _on_gossip_message_received(ns, self, message, "recv")
    IN  IF is_duplicate(seen, msg_id)
        THEN [ns |-> ns, seen |-> seen, out |-> <<>>, disp |-> "duplicate"]
        ELSE [ns   |-> r.ns,
              seen |-> deque_append(seen, msg_id),
              out  |-> IF Get(r.message, "ttl", 0) > 0
                       THEN forward_message(r.message)
                       ELSE <<>>,
              disp |-> "accepted"]

\* handle_message recording the msg_id of a frame it discards for its channel.
handle_message_filter_marks_seen(ns, seen, self, frame) ==
    LET payload == Get(frame, "payload", EmptyDict)
        msg_type == Get(payload, "type", NoneStr)
        channel_id == Get(payload, "channel_id", NoneStr)
        dropped(why) == [ns |-> ns, seen |-> seen, out |-> <<>>, disp |-> why]
    IN  IF "raw" \in DOMAIN frame THEN dropped("bad_json")
        ELSE IF ~verify_message(frame) THEN dropped("bad_signature")
        ELSE IF msg_type = NoneStr THEN dropped("malformed")
        ELSE IF not_subscribed(ns.sub, channel_id)
        THEN [ns |-> ns, seen |-> deque_append(seen, frame.msg_id), out |-> <<>>,
              disp |-> "not_subscribed"]
        ELSE IF msg_type = "chat_message" THEN _handle_chat_message(ns, seen, self, frame)
        ELSE IF msg_type = "HELLO" THEN dropped("hello")
        ELSE dropped("unknown_type")

\* handle_message with the msg_id recorded before the signature is verified.
handle_message_seen_before_verify(ns, seen, self, frame) ==
    LET payload == Get(frame, "payload", EmptyDict)
        msg_type == Get(payload, "type", NoneStr)
        channel_id == Get(payload, "channel_id", NoneStr)
        dropped(why) == [ns |-> ns, seen |-> seen, out |-> <<>>, disp |-> why]
    IN  IF "raw" \in DOMAIN frame THEN dropped("bad_json")
        ELSE IF ~verify_message(frame)
        THEN [ns |-> ns, seen |-> deque_append(seen, Get(frame, "msg_id", 0)),
              out |-> <<>>, disp |-> "bad_signature"]
        ELSE IF msg_type = NoneStr THEN dropped("malformed")
        ELSE IF not_subscribed(ns.sub, channel_id) THEN dropped("not_subscribed")
        ELSE IF msg_type = "chat_message" THEN _handle_chat_message(ns, seen, self, frame)
        ELSE IF msg_type = "HELLO" THEN dropped("hello")
        ELSE dropped("unknown_type")

\* GossipProtocol.handle_message on one frame read from a link.  A frame that is
\* no JSON object is [raw |-> text].
handle_message(ns, seen, self, frame) ==
    LET payload == Get(frame, "payload", EmptyDict)
        msg_type == Get(payload, "type", NoneStr)
        channel_id == Get(payload, "channel_id", NoneStr)
        dropped(why) == [ns |-> ns, seen |-> seen, out |-> <<>>, disp |-> why]
    IN  IF "raw" \in DOMAIN frame THEN dropped("bad_json")
        ELSE IF ~verify_message(frame) THEN dropped("bad_signature")
        ELSE IF msg_type = NoneStr THEN dropped("malformed")
        ELSE IF not_subscribed(ns.sub, channel_id) THEN dropped("not_subscribed")
        ELSE IF msg_type = "chat_message" THEN _handle_chat_message(ns, seen, self, frame)
        ELSE IF msg_type = "HELLO" THEN dropped("hello")
        ELSE dropped("unknown_type")

----------------------------------------------------------------------------
(* The state machine *)

EmptyNode == [sub |-> {"#general"}, keys |-> EmptyDict, ch |-> EmptyDict,
              mem |-> EmptyDict, msgs |-> <<>>, ui |-> <<>>]

NothingHandled == [filtered |-> {}, accepted |-> {}, failed |-> {}, forwarded |-> {},
                   lost |-> {}]

\* A connection a node has opened to a peer (the reader and writer of
\* asyncio.open_connection), named by the task that opened it.
Connection(peer, id) == [peer |-> peer, id |-> id]

\* The keys of a dict, in one of the orders they may have been inserted in.
InSomeOrder(S) ==
    CHOOSE q \in [1..Cardinality(S) -> S] : \A i, j \in 1..Cardinality(S) : i # j => q[i] # q[j]

\* An event loop with no coroutine in it: `ready` are the coroutines scheduled
\* and not yet started, in the order they were scheduled; `waiting` those that
\* are suspended in an await.
NoTasks == [ready |-> <<>>, waiting |-> {}]

Event(op, node, arg, msg, out, disp) ==
    [op |-> op, node |-> node, arg |-> arg, msg |-> msg, out |-> out, disp |-> disp]

\* TADNode.__init__ and start() on every node; every node connected to every other.
Init ==
    /\ subscribed_channels = [n \in Nodes |-> EmptyNode.sub]
    /\ seen_messages = [n \in Nodes |-> <<>>]
    /\ channel_keys = [n \in Nodes |-> EmptyNode.keys]
    /\ db_channels = [n \in Nodes |-> EmptyNode.ch]
    /\ db_members = [n \in Nodes |-> EmptyNode.mem]
    /\ db_messages = [n \in Nodes |-> EmptyNode.msgs]
    /\ surfaced = [n \in Nodes |-> EmptyNode.ui]
    /\ handled = [n \in Nodes |-> NothingHandled]
    /\ peer_writers = [n \in Nodes |-> [p \in Nodes \ {n} |-> 0]]
    /\ connections = [n \in Nodes |-> {Connection(p, 0) : p \in Nodes \ {n}}]
    /\ discovered_peers = [n \in Nodes |-> InSomeOrder(Nodes \ {n})]
    /\ tasks = [n \in Nodes |-> NoTasks]
    /\ net = [l \in Links |-> <<>>]
    /\ replies = [l \in Links |-> <<>>]
    /\ clock = 1
    /\ calls = 0
    /\ last = Event("start", "", <<>>, EmptyDict, <<>>, "")

SetNode(n, ns) ==
    /\ subscribed_channels' = [subscribed_channels EXCEPT ![n] = ns.sub]
    /\ channel_keys' = [channel_keys EXCEPT ![n] = ns.keys]
    /\ db_channels' = [db_channels EXCEPT ![n] = ns.ch]
    /\ db_members' = [db_members EXCEPT ![n] = ns.mem]
    /\ db_messages' = [db_messages EXCEPT ![n] = ns.msgs]
    /\ surfaced' = [surfaced EXCEPT ![n] = ns.ui]

\* ConnectionManager.broadcast_message / the _forward_to_peer tasks: every
\* envelope of `out` is serialized and written to each peer of peer_writers.
WriteToPeers(n, out) ==
    net' = [l \in DOMAIN net |->
              IF l[1] = n /\ l[2] \in DOMAIN peer_writers[n] THEN net[l] \o out ELSE net[l]]

\* broadcast_message without "Add to seen messages immediately".
gossip_broadcast_message_unseeded(op, n, arg, content, channel_id, extra_payload) ==
    LET payload == Update([channel_id |-> channel_id, type |-> "chat_message",
                           content |-> content, timestamp |-> clock],
                          extra_payload)
        signed_message == Put(sign_message(n, payload, clock), "ttl", INITIAL_TTL)
        r == _on_gossip_message_received(NodeOf(n), n, signed_message, "bcast")
    IN  /\ calls < MaxCalls
        /\ calls' = calls + 1
        /\ clock' = clock + 1
        /\ UNCHANGED seen_messages
        /\ WriteToPeers(n, <<signed_message>>)
        /\ SetNode(n, r.ns)
        /\ handled' = [handled EXCEPT ![n].accepted = @ \cup {signed_message}]
        /\ last' = Event(op, n, arg, signed_message, <<signed_message>>, "sent")

\* GossipProtocol.broadcast_message called by node n: build and sign the
\* payload, attach the ttl, seed seen, write to the peers, then the callback.
gossip_broadcast_message(op, n, arg, content, channel_id, extra_payload) ==
    LET payload == Update([channel_id |-> channel_id, type |-> "chat_message",
                           content |-> content, timestamp |-> clock],
                          extra_payload)
        signed_message == Put(sign_message(n, payload, clock), "ttl", INITIAL_TTL)
        r == _on_gossip_message_received(NodeOf(n), n, signed_message, "bcast")
    IN  /\ calls < MaxCalls
        /\ calls' = calls + 1
        /\ clock' = clock + 1
        /\ seen_messages' = [seen_messages EXCEPT
                                ![n] = deque_append(@, signed_message.msg_id)]
        /\ WriteToPeers(n, <<signed_message>>)
        /\ SetNode(n, r.ns)
        /\ handled' = [handled EXCEPT ![n].accepted = @ \cup {signed_message}]
        /\ last' = Event(op, n, arg, signed_message, <<signed_message>>, "sent")

\* TADNode.broadcast_message(content, channel_id)
Broadcast(n, c, t) ==
    LET keys == channel_keys[n]
        enc == encrypt_message(get_channel_key(keys, c), Str(t), clock)
    IN  /\ IF has_channel_key(keys, c)
           THEN gossip_broadcast_message("broadcast", n, <<c>>, enc[1], c,
                                         [nonce |-> enc[2], is_encrypted |-> TRUE])
           ELSE gossip_broadcast_message("broadcast", n, <<c>>, Str(t), c, EmptyDict)
        /\ UNCHANGED <<peer_writers, connections, discovered_peers, tasks, replies>>

\* The acknowledgement _handle_incoming_connection writes after the callback,
\* whatever the frame was and whatever the callback did with it.
ack_response(frame) == "ACK"

\* The reader leaving its loop when a frame failed verification.
reader_ends_on_bad_signature(disp) == disp = "bad_signature"

\* Does the reader (_handle_incoming_connection) leave its `while True` after a
\* frame that handle_message disposed of as `disp`?  handle_message returns
\* normally for every frame it drops and an exception of the callback is caught
\* and logged inside the loop, so the next readuntil follows.
reader_ends(disp) == FALSE

\* The frame carries no signature of its sender_id over its payload, or is on a
\* channel whose key the node holds and is no ciphertext under that key.
fails_authentication(ns, frame) ==
    LET payload == Get(frame, "payload", EmptyDict)
        content == Get(payload, "content", NoneVal)
        channel_id == Get(payload, "channel_id", NoneStr)
    IN  /\ "raw" \notin DOMAIN frame
        /\ \/ ~verify_signature(payload, Get(frame, "signature", NoneVal),
                                Get(frame, "sender_id", ""))
           \/ /\ has_channel_key(ns.keys, channel_id)
              /\ ~(content.kind = "dict" /\ Get(content, "type", "") = "INVITE")
              /\ ~(/\ content.kind = "ct"
                   /\ content.key = get_channel_key(ns.keys, channel_id)
                   /\ content.nonce = Get(payload, "nonce", 0))

\* A reader task (_handle_incoming_connection) reads the next frame of link l,
\* hands it to TADNode._on_message_from_peer -> GossipProtocol.handle_message and
\* writes its acknowledgement back on the connection.  Were the reader to end,
\* the connection would be closed, what was not read lost, and the peer that
\* opened it would drop it from its peer table.
Deliver(l) ==
    /\ net[l] # <<>>
    /\ LET self == l[2]
           frame == Head(net[l])
           r == handle_message(NodeOf(self), seen_messages[self], self, frame)
           ends == reader_ends(r.disp)
       IN  /\ SetNode(self, r.ns)
           /\ seen_messages' = [seen_messages EXCEPT ![self] = r.seen]
           /\ net' = [k \in DOMAIN net |->
                        IF k = l THEN (IF ends THEN <<>> ELSE Tail(net[k]))
                        ELSE IF k[1] = self /\ k[2] \in DOMAIN peer_writers[self]
                        THEN net[k] \o r.out
                        ELSE net[k]]
           /\ peer_writers' = IF ends /\ l[1] \in DOMAIN peer_writers
                              THEN [peer_writers EXCEPT ![l[1]] = Del(@, self)]
                              ELSE peer_writers
           /\ connections' = IF ends /\ l[1] \in DOMAIN connections
                             THEN [connections EXCEPT ![l[1]] = {c \in @ : c.peer # self}]
                             ELSE connections
           /\ handled' = [handled EXCEPT
                  ![self] = [filtered |-> IF r.disp = "not_subscribed"
                                          THEN @.filtered \cup {frame} ELSE @.filtered,
                             accepted |-> IF r.disp = "accepted"
                                          THEN @.accepted \cup {frame} ELSE @.accepted,
                             failed   |-> IF fails_authentication(NodeOf(self), frame)
                                          THEN @.failed \cup {l[1]} ELSE @.failed,
                             forwarded |-> IF r.out # <<>>
                                           THEN @.forwarded \cup {frame.msg_id}
                                           ELSE @.forwarded,
                             lost |-> @.lost]]
           /\ last' = Event("deliver", self, <<l[1]>>, frame, r.out, r.disp)
    /\ replies' = [replies EXCEPT ![l] = Append(@, ack_response(Head(net[l])))]
    /\ UNCHANGED <<discovered_peers, tasks, clock, calls>>

\* create_channel without the test for an existing channel.
create_channel_unchecked(ns, self, channel_id, channel_type) ==
    LET key == generate_channel_key(self, channel_id)
        keyed == IF channel_type = "private"
                 THEN [ns EXCEPT !.keys = Put(@, channel_id, key)]
                 ELSE ns
        owner_node_id == IF channel_type = "private" THEN self ELSE NoneStr
        stored == store_channel(keyed, channel_id, channel_id, channel_type,
                                owner_node_id)
        member == add_channel_member(stored, channel_id, self, "owner")
    IN  [ns |-> join_channel(member, channel_id), ok |-> TRUE]

\* create_channel recording its own membership with the default role.
create_channel_default_role(ns, self, channel_id, channel_type) ==
    LET key == generate_channel_key(self, channel_id)
        keyed == IF channel_type = "private"
                 THEN [ns EXCEPT !.keys = Put(@, channel_id, key)]
                 ELSE ns
        owner_node_id == IF channel_type = "private" THEN self ELSE NoneStr
        stored == store_channel(keyed, channel_id, channel_id, channel_type,
                                owner_node_id)
        member == add_channel_member(stored, channel_id, self, "member")
    IN  IF get_channel_info(ns, channel_id) # NoneVal
        THEN [ns |-> ns, ok |-> FALSE]
        ELSE [ns |-> join_channel(member, channel_id), ok |-> TRUE]

\* TADNode.create_channel: [ns |-> the node afterwards, ok |-> the return value]
create_channel(ns, self, channel_id, channel_type) ==
    LET key == generate_channel_key(self, channel_id)
        keyed == IF channel_type = "private"
                 THEN [ns EXCEPT !.keys = Put(@, channel_id, key)]
                 ELSE ns
        owner_node_id == IF channel_type = "private" THEN self ELSE NoneStr
        stored == store_channel(keyed, channel_id, channel_id, channel_type,
                                owner_node_id)
        member == add_channel_member(stored, channel_id, self, "owner")
    IN  IF get_channel_info(ns, channel_id) # NoneVal
        THEN [ns |-> ns, ok |-> FALSE]
        ELSE [ns |-> join_channel(member, channel_id), ok |-> TRUE]

CreateChannel(n, c, ty) ==
    /\ calls < MaxCalls
    /\ calls' = calls + 1
    /\ LET r == create_channel(NodeOf(n), n, c, ty)
       IN  /\ SetNode(n, r.ns)
           /\ last' = Event("create", n, <<c, ty>>, EmptyDict, <<>>,
                            IF r.ok THEN "created" ELSE "exists")
    /\ UNCHANGED <<seen_messages, peer_writers, connections, discovered_peers, tasks, replies, net, clock, handled>>

JoinChannel(n, c) ==
    /\ c \notin subscribed_channels[n]
    /\ calls < MaxCalls
    /\ calls' = calls + 1
    /\ SetNode(n, join_channel(NodeOf(n), c))
    /\ last' = Event("join", n, <<c>>, EmptyDict, <<>>, "")
    /\ UNCHANGED <<seen_messages, peer_writers, connections, discovered_peers, tasks, replies, net, clock, handled>>

LeaveChannel(n, c) ==
    /\ c \in subscribed_channels[n]
    /\ calls < MaxCalls
    /\ calls' = calls + 1
    /\ SetNode(n, leave_channel(NodeOf(n), c))
    /\ last' = Event("leave", n, <<c>>, EmptyDict, <<>>, "")
    /\ UNCHANGED <<seen_messages, peer_writers, connections, discovered_peers, tasks, replies, net, clock, handled>>

\* The content of the INVITE that invite_peer_to_channel broadcasts.
invite_payload(channel_id, channel_info, target_node_id, encrypted_key) ==
    [kind |-> "dict",
     type |-> "INVITE",
     channel_id |-> channel_id,
     channel_name |-> channel_info.name,
     channel_type |-> channel_info.type,
     target_node_id |-> target_node_id,
     encrypted_key |-> encrypted_key]

\* TADNode.invite_peer_to_channel(channel_id, target_node_id, target_public_key_hex)
InvitePeer(n, c, target, target_public_key) ==
    LET ns == NodeOf(n)
        channel_info == get_channel_info(ns, c)
        channel_key == get_channel_key(ns.keys, c)
        refuse(why) ==
            /\ calls < MaxCalls
            /\ calls' = calls + 1
            /\ last' = Event("invite", n, <<c, target>>, EmptyDict, <<>>, why)
            /\ UNCHANGED <<subscribed_channels, seen_messages, channel_keys,
                           db_channels, db_members, db_messages, net, clock, surfaced,
                           handled>>
    IN  /\ IF ~is_owner(channel_info, n) THEN refuse("not_owner")
           ELSE IF channel_key = NoneVal THEN refuse("no_key")
           ELSE gossip_broadcast_message("invite", n, <<c, target>>,
                    invite_payload(c, channel_info, target,
                        encrypt_key_for_recipient(target_public_key, channel_key)),
                    "#general", EmptyDict)
        /\ UNCHANGED <<peer_writers, connections, discovered_peers, tasks, replies>>

----------------------------------------------------------------------------
(* Frames of the outside peer.  It signs with its own key only; it can name *)
(* any sender, leave the signature out, put a ttl inside the signed payload *)
(* and choose msg_id and the envelope ttl freely.                           *)

OutsiderPayload(c) ==
    [type |-> "chat_message", channel_id |-> c, content |-> Str("yo"), timestamp |-> 0]

\* An INVITE for the entry node, sent on #secret, with a key of the outside peer.
OutsiderInvite ==
    [type |-> "chat_message", channel_id |-> "#secret", timestamp |-> 0,
     content |-> invite_payload("#secret", [name |-> "#secret", type |-> "private"], Entry,
                     encrypt_key_for_recipient(Entry,
                         generate_channel_key(Outsider, "#secret")))]

OutsiderSigned(i, p, t) ==
    [msg_id |-> i, payload |-> p, sender_id |-> Outsider,
     signature |-> sign_data(Outsider, p), ttl |-> t]

OutsiderFrames ==
    LET general == OutsiderPayload("#general")
        good == OutsiderSigned(9, general, INITIAL_TTL)
    IN  {good,
         OutsiderSigned(1, general, INITIAL_TTL),
         OutsiderSigned(9, OutsiderPayload("#secret"), INITIAL_TTL),
         OutsiderSigned(9, Put(general, "ttl", 2), INITIAL_TTL),
         OutsiderSigned(9, Put(general, "ttl", 2), 0),
         [good EXCEPT !.sender_id = "A"],
         [k \in {"msg_id", "payload", "sender_id", "ttl"} |-> good[k]],
         OutsiderSigned(9, OutsiderInvite, INITIAL_TTL),
         [raw |-> "ACK"]}

\* The outside peer writes a frame to its link.
Inject(frame) ==
    /\ calls < MaxCalls
    /\ calls' = calls + 1
    /\ net' = [net EXCEPT ![<<Outsider, Entry>>] = Append(@, frame)]
    /\ last' = Event("inject", Outsider, <<Entry>>, frame, <<frame>>, "")
    /\ UNCHANGED <<subscribed_channels, seen_messages, channel_keys, db_channels,
                   db_members, db_messages, peer_writers, connections, discovered_peers, tasks, replies, clock, surfaced, handled>>

Next ==
    \/ \E n \in Callers, c \in Channels, t \in Texts : Broadcast(n, c, t)
    \/ \E l \in Links : Deliver(l)
    \/ \E n \in Callers, c \in PrivateChannels, ty \in ChannelTypes :
           CreateChannel(n, c, ty)
    \/ \E n \in Callers, c \in Channels : JoinChannel(n, c)
    \/ \E n \in Callers, c \in Channels : LeaveChannel(n, c)
    \/ \E n \in Callers, c \in PrivateChannels : \E target \in Nodes \ {n} :
           InvitePeer(n, c, target, target)
    \/ \E frame \in OutsiderFrames : Inject(frame)

Spec == Init /\ [][Next]_vars

----------------------------------------------------------------------------
(* Restart: stop() and a new TADNode on the same db_path and profile.       *)

\* A new TADNode that opens a new, empty database file.
restart_on_new_file(ns) == [EmptyNode EXCEPT !.ui = ns.ui]

\* TADNode.stop() then TADNode.__init__ and start(): DatabaseManager opens the
\* file (CREATE TABLE IF NOT EXISTS keeps the rows); E2EEManager, the subscribed
\* set and the seen deque of the new GossipProtocol are new.
restart(ns) ==
    [sub |-> {"#general"}, keys |-> EmptyDict, ch |-> ns.ch, mem |-> ns.mem,
     msgs |-> ns.msgs, ui |-> ns.ui]

\* Node n is stopped and started again.  The frames its readers had not read
\* are lost with the closed connections; the peers connect again.
Restart(n) ==
    /\ calls < MaxCalls
    /\ calls' = calls + 1
    /\ SetNode(n, restart(NodeOf(n)))
    /\ seen_messages' = [seen_messages EXCEPT ![n] = <<>>]
    /\ net' = [l \in DOMAIN net |-> IF l[2] = n THEN <<>> ELSE net[l]]
    /\ last' = Event("restart", n, <<>>, EmptyDict, <<>>, "")
    /\ UNCHANGED <<peer_writers, connections, discovered_peers, tasks, replies, clock, handled>>

NextRestart ==
    \/ Next
    \/ \E n \in Callers : Restart(n)

SpecRestart == Init /\ [][NextRestart]_vars

----------------------------------------------------------------------------
(* Line topology: A - B - C - D - E, each node connected to its neighbours   *)
(* only (connect_to_peer on discovery), all subscribed to #general.          *)

LineNodes == {"A", "B", "C", "D", "E"}
LineOrder == <<"A", "B", "C", "D", "E">>
LinePos(n) == CHOOSE i \in 1..Len(LineOrder) : LineOrder[i] = n
LineNeighbours(n) ==
    {p \in LineNodes : LinePos(p) - LinePos(n) \in {-1, 1}}
LineLinks == {l \in LineNodes \X LineNodes : l[2] \in LineNeighbours(l[1])}

InitLine ==
    /\ subscribed_channels = [n \in LineNodes |-> EmptyNode.sub]
    /\ seen_messages = [n \in LineNodes |-> <<>>]
    /\ channel_keys = [n \in LineNodes |-> EmptyNode.keys]
    /\ db_channels = [n \in LineNodes |-> EmptyNode.ch]
    /\ db_members = [n \in LineNodes |-> EmptyNode.mem]
    /\ db_messages = [n \in LineNodes |-> EmptyNode.msgs]
    /\ surfaced = [n \in LineNodes |-> EmptyNode.ui]
    /\ handled = [n \in LineNodes |-> NothingHandled]
    /\ peer_writers = [n \in LineNodes |-> [p \in LineNeighbours(n) |-> 0]]
    /\ connections = [n \in LineNodes |-> {Connection(p, 0) : p \in LineNeighbours(n)}]
    /\ discovered_peers = [n \in LineNodes |-> InSomeOrder(LineNeighbours(n))]
    /\ tasks = [n \in LineNodes |-> NoTasks]
    /\ net = [l \in LineLinks |-> <<>>]
    /\ replies = [l \in LineLinks |-> <<>>]
    /\ clock = 1
    /\ calls = 0
    /\ last = Event("start", "", <<>>, EmptyDict, <<>>, "")

NextLine ==
    \/ \E n \in LineNodes, t \in Texts : Broadcast(n, "#general", t)
    \/ \E l \in LineLinks : Deliver(l)

SpecLine == InitLine /\ [][NextLine]_vars

----------------------------------------------------------------------------
(* The Store by itself: DatabaseManager called directly on the store of A,  *)
(* and an export of it imported into the store of B.                        *)

StoreMsgIds == {1, 2, 3}
StoreTimestamps == {1, 2}
HistoryLimits == {0, 1, 2, 3}
StoreEnvelopes ==
    {sign_message_as(i, c, ts) : i \in StoreMsgIds, c \in Channels, ts \in StoreTimestamps}

\* db_manager.store_message(env) on the store of node n
StoreMessage(n, env) ==
    /\ SetNode(n, store_message(NodeOf(n), env))
    /\ last' = Event("store", n, <<>>, env, <<>>,
                     IF store_message_inserted(NodeOf(n), env) THEN "inserted" ELSE "ignored")
    /\ UNCHANGED <<seen_messages, peer_writers, connections, discovered_peers, tasks, replies, net, clock, calls, handled>>

\* db_manager.get_messages_for_channel(c, last_n) on the store of node n
History(n, c, last_n) ==
    /\ calls < MaxCalls
    /\ calls' = calls + 1
    /\ \E result \in get_messages_for_channel(db_messages[n], c, last_n) :
           last' = Event("history", n, <<c, last_n>>, EmptyDict, result, "")
    /\ UNCHANGED <<subscribed_channels, seen_messages, channel_keys, db_channels,
                   db_members, db_messages, peer_writers, connections, discovered_peers, tasks, replies, net, clock, surfaced, handled>>

\* db_manager.export_messages_to_json(c) on the store of node n; c = None: all
Export(n, c) ==
    /\ calls < MaxCalls
    /\ calls' = calls + 1
    /\ \E result \in export_messages_to_json(db_messages[n], c) :
           last' = Event("export", n, <<c>>, EmptyDict, result, "")
    /\ UNCHANGED <<subscribed_channels, seen_messages, channel_keys, db_channels,
                   db_members, db_messages, peer_writers, connections, discovered_peers, tasks, replies, net, clock, surfaced, handled>>

\* db_manager.import_messages_from_json(exported) on the fresh store of node m,
\* with the list the export before it returned.
Import(m) ==
    /\ last.op = "export" /\ last.node # m
    /\ db_messages[m] = <<>> /\ db_channels[m] = EmptyDict
    /\ SetNode(m, import_messages_from_json(NodeOf(m), last.out))
    /\ last' = Event("import", m, <<last.node, last.arg[1]>>, EmptyDict, last.out, "")
    /\ UNCHANGED <<seen_messages, peer_writers, connections, discovered_peers, tasks, replies, net, clock, calls, handled>>

NextStore ==
    \/ \E env \in StoreEnvelopes : StoreMessage("A", env)
    \/ \E c \in Channels, last_n \in HistoryLimits : History("A", c, last_n)
    \/ \E c \in Channels \cup {NoneStr} : Export("A", c)
    \/ Import("B")

SpecStore == Init /\ [][NextStore]_vars

----------------------------------------------------------------------------
(* Ring topology: A - B - C - A, all subscribed to #general.  A peer may    *)
(* write back a copy of an envelope that has been broadcast.                *)

\* The envelopes the nodes have broadcast so far.
SentEnvelopes ==
    UNION {{surfaced[n][i].env : i \in 1..Len(surfaced[n])} : n \in Nodes}

\* A connected peer writes to node n a copy of an envelope it has received.
Replay(n, env) ==
    /\ calls < MaxCalls
    /\ calls' = calls + 1
    /\ net' = [net EXCEPT ![<<Outsider, n>>] = Append(@, env)]
    /\ last' = Event("replay", Outsider, <<n>>, env, <<env>>, "")
    /\ UNCHANGED <<subscribed_channels, seen_messages, channel_keys, db_channels,
                   db_members, db_messages, peer_writers, connections, discovered_peers, tasks, replies, clock, surfaced, handled>>

NextRing ==
    \/ \E n \in Nodes, t \in Texts : Broadcast(n, "#general", t)
    \/ \E l \in Links : Deliver(l)
    \/ \E n \in Nodes : \E env \in SentEnvelopes : Replay(n, env)

SpecRing == Init /\ [][NextRing]_vars

----------------------------------------------------------------------------
(* network/discovery.py and ConnectionManager.connect_to_peer.  Node A has    *)
(* been started and has found no peer yet; the Zeroconf browser calls         *)
(* _on_service_state_change on its own thread.                                *)

DiscoveringNodes == {"A"}
ServiceUsers == {"B", "C", "Z"}
ServiceName(username) == <<"TAD Node", username>>
ServiceNames == {ServiceName(u) : u \in ServiceUsers}
StateChanges == {"Added", "Removed", "Updated"}

\* zeroconf.get_service_info(service_type, name): the info of the service, with
\* the id of its TXT record and its address, or None.  Z is a name without info.
get_service_info(name) ==
    IF name[2] \in Nodes THEN [id |-> name[2], address |-> name[2]] ELSE NoneVal

\* DiscoveryService._handle_peer_added up to its await: [tracked |-> the keys of
\* discovered_peers afterwards, found |-> the peer handed to on_peer_found, or None]
_handle_peer_added(tracked, self, name) ==
    LET info == get_service_info(name)
    IN  IF info = NoneVal THEN [tracked |-> tracked, found |-> NoneStr]
        ELSE IF info.id = self THEN [tracked |-> tracked, found |-> NoneStr]
        ELSE IF ~Contains(tracked, info.id)
        THEN [tracked |-> Append(tracked, info.id), found |-> info.id]
        ELSE [tracked |-> tracked, found |-> NoneStr]

\* DiscoveryService._handle_peer_removed up to its await: the loop over the keys
\* takes the first one whose address is truthy (every address is) and breaks;
\* `name` is not read.  [tracked, removed |-> the peer handed to on_peer_removed]
_handle_peer_removed(tracked, name) ==
    IF tracked # <<>>
    THEN [tracked |-> Tail(tracked), removed |-> Head(tracked)]
    ELSE [tracked |-> tracked, removed |-> NoneStr]

\* TADNode._on_peer_removed: logs and calls the UI callback; the peer table of
\* the ConnectionManager afterwards.
_on_peer_removed(writers, peer_id) == writers

\* ConnectionManager.connect_to_peer up to its await: does it go on to
\* asyncio.open_connection?  (False: "Already connected", return True.)
connect_to_peer_dials(writers, peer) == peer \notin DOMAIN writers

\* _on_service_state_change running the handler itself, on the Zeroconf thread.
_on_service_state_change_inline(tracked, loop, id, name, state_change) ==
    IF state_change = "Added"
    THEN [tracked |-> _handle_peer_added(tracked, "", name).tracked, loop |-> loop]
    ELSE IF state_change = "Removed"
    THEN [tracked |-> _handle_peer_removed(tracked, name).tracked, loop |-> loop]
    ELSE [tracked |-> tracked, loop |-> loop]

\* DiscoveryService._on_service_state_change, on the Zeroconf thread:
\* run_coroutine_threadsafe schedules the handler on the event loop.
_on_service_state_change(tracked, loop, id, name, state_change) ==
    LET schedule(coro) ==
            [loop EXCEPT !.ready = Append(@, [id |-> id, coro |-> coro, name |-> name])]
    IN  IF state_change = "Added"
        THEN [tracked |-> tracked, loop |-> schedule("_handle_peer_added")]
        ELSE IF state_change = "Removed"
        THEN [tracked |-> tracked, loop |-> schedule("_handle_peer_removed")]
        ELSE [tracked |-> tracked, loop |-> loop]

\* The Zeroconf thread reports a state change of a service to node n.
ServiceStateChange(n, name, state_change) ==
    /\ calls < MaxCalls
    /\ calls' = calls + 1
    /\ LET r == _on_service_state_change(discovered_peers[n], tasks[n], calls + 1,
                                         name, state_change)
       IN  /\ discovered_peers' = [discovered_peers EXCEPT ![n] = r.tracked]
           /\ tasks' = [tasks EXCEPT ![n] = r.loop]
    /\ last' = Event("service_state_change", n, <<name, state_change>>, EmptyDict, <<>>,
                     "zeroconf_thread")
    /\ UNCHANGED <<subscribed_channels, seen_messages, channel_keys, db_channels,
                   db_members, db_messages, peer_writers, connections, net, replies,
                   clock, surfaced, handled>>

\* The event loop of n starts the _handle_peer_added it was handed first and runs
\* it to its first suspension: through on_peer_found = TADNode._on_peer_discovered
\* into connect_to_peer, which returns or waits in asyncio.open_connection.
HandlePeerAdded(n) ==
    /\ tasks[n].ready # <<>>
    /\ Head(tasks[n].ready).coro = "_handle_peer_added"
    /\ LET task == Head(tasks[n].ready)
           r == _handle_peer_added(discovered_peers[n], n, task.name)
           dials == r.found # NoneStr /\ connect_to_peer_dials(peer_writers[n], r.found)
       IN  /\ discovered_peers' = [discovered_peers EXCEPT ![n] = r.tracked]
           /\ tasks' = [tasks EXCEPT
                  ![n] = [ready |-> Tail(@.ready),
                          waiting |-> IF dials
                                      THEN @.waiting \cup
                                           {[id |-> task.id, coro |-> "connect_to_peer",
                                             peer |-> r.found]}
                                      ELSE @.waiting]]
           /\ last' = Event("peer_added", n, <<task.name>>, EmptyDict,
                            IF r.found = NoneStr THEN <<>> ELSE <<r.found>>,
                            IF r.found = NoneStr THEN "not_notified"
                            ELSE IF dials THEN "dialing" ELSE "already_connected")
    /\ UNCHANGED <<subscribed_channels, seen_messages, channel_keys, db_channels,
                   db_members, db_messages, peer_writers, connections, net, replies,
                   clock, calls, surfaced, handled>>

\* The event loop of n starts the _handle_peer_removed it was handed first.
HandlePeerRemoved(n) ==
    /\ tasks[n].ready # <<>>
    /\ Head(tasks[n].ready).coro = "_handle_peer_removed"
    /\ LET task == Head(tasks[n].ready)
           r == _handle_peer_removed(discovered_peers[n], task.name)
       IN  /\ discovered_peers' = [discovered_peers EXCEPT ![n] = r.tracked]
           /\ tasks' = [tasks EXCEPT ![n].ready = Tail(@)]
           /\ peer_writers' = [peer_writers EXCEPT
                  ![n] = IF r.removed = NoneStr THEN @ ELSE _on_peer_removed(@, r.removed)]
           /\ last' = Event("peer_removed", n, <<task.name>>, EmptyDict,
                            IF r.removed = NoneStr THEN <<>> ELSE <<r.removed>>, "")
    /\ UNCHANGED <<subscribed_channels, seen_messages, channel_keys, db_channels,
                   db_members, db_messages, connections, net, replies, clock, calls,
                   surfaced, handled>>

\* asyncio.open_connection returns in a connect_to_peer of n: the writer is put
\* into peer_writers under the address of the peer and the reader task
\* (_listen_to_peer) is started.
ConnectionOpened(n, task) ==
    /\ task \in tasks[n].waiting
    /\ tasks' = [tasks EXCEPT ![n].waiting = @ \ {task}]
    /\ peer_writers' = [peer_writers EXCEPT ![n] = Put(@, task.peer, task.id)]
    /\ connections' = [connections EXCEPT ![n] = @ \cup {Connection(task.peer, task.id)}]
    /\ last' = Event("connection_opened", n, <<task.peer>>, EmptyDict, <<>>, "")
    /\ UNCHANGED <<subscribed_channels, seen_messages, channel_keys, db_channels,
                   db_members, db_messages, discovered_peers, net, replies, clock, calls,
                   surfaced, handled>>

\* asyncio.open_connection times out or is refused: connect_to_peer returns False.
ConnectionFailed(n, task) ==
    /\ task \in tasks[n].waiting
    /\ tasks' = [tasks EXCEPT ![n].waiting = @ \ {task}]
    /\ last' = Event("connection_failed", n, <<task.peer>>, EmptyDict, <<>>, "")
    /\ UNCHANGED <<subscribed_channels, seen_messages, channel_keys, db_channels,
                   db_members, db_messages, peer_writers, connections, discovered_peers,
                   net, replies, clock, calls, surfaced, handled>>

\* The reader task of a connection ends (the peer closed it, or nothing was read
\* for 30 s): the writer is closed and the entry under the address of the peer
\* is deleted from peer_writers, whichever connection it holds.
ConnectionClosed(n, c) ==
    /\ c \in connections[n]
    /\ connections' = [connections EXCEPT ![n] = @ \ {c}]
    /\ peer_writers' = [peer_writers EXCEPT ![n] = Del(@, c.peer)]
    /\ handled' = [handled EXCEPT ![n].lost = @ \cup {c.peer}]
    /\ last' = Event("connection_closed", n, <<c.peer>>, EmptyDict, <<>>, "")
    /\ UNCHANGED <<subscribed_channels, seen_messages, channel_keys, db_channels,
                   db_members, db_messages, discovered_peers, tasks, net, replies, clock,
                   calls, surfaced>>

\* Every node started, no peer discovered, no connection.
InitLink ==
    /\ subscribed_channels = [n \in Nodes |-> EmptyNode.sub]
    /\ seen_messages = [n \in Nodes |-> <<>>]
    /\ channel_keys = [n \in Nodes |-> EmptyNode.keys]
    /\ db_channels = [n \in Nodes |-> EmptyNode.ch]
    /\ db_members = [n \in Nodes |-> EmptyNode.mem]
    /\ db_messages = [n \in Nodes |-> EmptyNode.msgs]
    /\ surfaced = [n \in Nodes |-> EmptyNode.ui]
    /\ handled = [n \in Nodes |-> NothingHandled]
    /\ peer_writers = [n \in Nodes |-> EmptyDict]
    /\ connections = [n \in Nodes |-> {}]
    /\ discovered_peers = [n \in Nodes |-> <<>>]
    /\ tasks = [n \in Nodes |-> NoTasks]
    /\ net = [l \in Links |-> <<>>]
    /\ replies = [l \in Links |-> <<>>]
    /\ clock = 1
    /\ calls = 0
    /\ last = Event("start", "", <<>>, EmptyDict, <<>>, "")

NextLink ==
    \/ \E n \in DiscoveringNodes, name \in ServiceNames, state_change \in StateChanges :
           ServiceStateChange(n, name, state_change)
    \/ \E n \in DiscoveringNodes : HandlePeerAdded(n)
    \/ \E n \in DiscoveringNodes : HandlePeerRemoved(n)
    \/ \E n \in DiscoveringNodes : \E task \in tasks[n].waiting : ConnectionOpened(n, task)
    \/ \E n \in DiscoveringNodes : \E task \in tasks[n].waiting : ConnectionFailed(n, task)
    \/ \E n \in DiscoveringNodes : \E c \in connections[n] : ConnectionClosed(n, c)
    \/ \E n \in DiscoveringNodes, t \in Texts : Broadcast(n, "#general", t)

SpecLink == InitLink /\ [][NextLink]_vars

----------------------------------------------------------------------------
(* Sending with back-pressure.  StreamWriter.write never waits; drain() waits *)
(* while the connection holds more than HighWater unread frames.  Node A      *)
(* broadcasts, peer C never reads.  In Spec every call writes at most one     *)
(* frame to a link, so with MaxCalls <= HighWater no drain() waits there and  *)
(* a broadcast is one step.                                                   *)

MaxSends == HighWater + 1     \* broadcasts of the sending node
Senders == {"A"}
SlowPeers == {"C"}

\* ConnectionManager.get_connected_peers / list(self.peer_writers.keys()): the
\* keys in insertion order, which is the order the connections were opened in.
get_connected_peers(writers) ==
    LET k == Cardinality(DOMAIN writers)
    IN  CHOOSE q \in [1..k -> DOMAIN writers] :
            /\ \A i, j \in 1..k : i # j => q[i] # q[j]
            /\ \A i \in 1..k : \A j \in (i + 1)..k : writers[q[i]] <= writers[q[j]]

\* ConnectionManager.broadcast_message from `addresses` on: send_message to one
\* address after the other, each awaited.  [links |-> the links afterwards,
\* waits |-> the peer whose drain() it is suspended in, or None, rest |-> the
\* addresses not yet written to]
RECURSIVE connection_broadcast_message(_, _, _, _, _)
connection_broadcast_message(links, writers, self, addresses, message) ==
    IF addresses = <<>> THEN [links |-> links, waits |-> NoneStr, rest |-> <<>>]
    ELSE LET addr == Head(addresses)
             written == [links EXCEPT ![<<self, addr>>] = Append(@, message)]
         IN  IF addr \notin DOMAIN writers
             THEN connection_broadcast_message(links, writers, self, Tail(addresses),
                                               message)
             ELSE IF Len(written[<<self, addr>>]) > HighWater
             THEN [links |-> written, waits |-> addr, rest |-> Tail(addresses)]
             ELSE connection_broadcast_message(written, writers, self, Tail(addresses),
                                               message)

\* The rest of GossipProtocol.broadcast_message once the sending has got as far
\* as `sent`: suspended again, or the callback and the end.
BroadcastContinue(n, op, signed_message, sent, others) ==
    LET r == _on_gossip_message_received(NodeOf(n), n, signed_message, "bcast")
    IN  /\ net' = sent.links
        /\ IF sent.waits = NoneStr
           THEN /\ SetNode(n, r.ns)
                /\ tasks' = [tasks EXCEPT ![n].waiting = others]
                /\ last' = Event(op, n, <<signed_message.payload.channel_id>>,
                                 signed_message, <<signed_message>>, "sent")
           ELSE /\ tasks' = [tasks EXCEPT ![n].waiting = others \cup
                                {[id |-> signed_message.msg_id, coro |-> "broadcast_message",
                                  message |-> signed_message, peer |-> sent.waits,
                                  rest |-> sent.rest]}]
                /\ last' = Event(op, n, <<signed_message.payload.channel_id>>,
                                 signed_message, <<signed_message>>, "draining")
                /\ UNCHANGED <<subscribed_channels, channel_keys, db_channels, db_members,
                               db_messages, surfaced>>

\* broadcast_message with "Add to seen messages" moved behind the sending: the
\* msg_id is appended in the step in which the sending ends.
appends_seen_after_sending(step, sent) == sent.waits = NoneStr

\* Does GossipProtocol.broadcast_message append the msg_id to seen_messages in
\* this step ("start": up to the first suspension, "resume": after a drain())?
\* "Add to seen messages immediately" stands before "Broadcast to all connected
\* peers", which holds every await.
appends_seen(step, sent) == step = "start"

\* TADNode.broadcast_message(content, channel_id) on a channel without key ->
\* GossipProtocol.broadcast_message, up to its first suspension or its end.
BroadcastStart(n, c, t) ==
    LET payload == [channel_id |-> c, type |-> "chat_message", content |-> Str(t),
                    timestamp |-> clock]
        signed_message == Put(sign_message(n, payload, clock), "ttl", INITIAL_TTL)
        sent == connection_broadcast_message(net, peer_writers[n], n,
                    get_connected_peers(peer_writers[n]), signed_message)
    IN  /\ ~has_channel_key(channel_keys[n], c)
        /\ clock <= MaxSends
        /\ clock' = clock + 1
        /\ seen_messages' = [seen_messages EXCEPT
               ![n] = IF appends_seen("start", sent)
                      THEN deque_append(@, signed_message.msg_id) ELSE @]
        /\ handled' = [handled EXCEPT ![n].accepted = @ \cup {signed_message}]
        /\ BroadcastContinue(n, "broadcast", signed_message, sent, tasks[n].waiting)
        /\ UNCHANGED <<peer_writers, connections, discovered_peers, replies, calls>>

\* drain() returns in a suspended broadcast_message of n: the peer has read on.
DrainReturns(n, task) ==
    /\ task \in tasks[n].waiting
    /\ task.coro = "broadcast_message"
    /\ Len(net[<<n, task.peer>>]) <= HighWater
    /\ LET sent == connection_broadcast_message(net, peer_writers[n], n, task.rest,
                                                task.message)
       IN  /\ seen_messages' = [seen_messages EXCEPT
                  ![n] = IF appends_seen("resume", sent)
                         THEN deque_append(@, task.message.msg_id) ELSE @]
           /\ BroadcastContinue(n, "broadcast_resumed", task.message, sent,
                                tasks[n].waiting \ {task})
    /\ UNCHANGED <<peer_writers, connections, discovered_peers, replies, clock, calls,
                   handled>>

\* The reader task of the node that opened link l (_listen_to_peer) reads a reply
\* and hands it to handle_message like any frame; it writes nothing back.
ReadReply(l) ==
    /\ replies[l] # <<>>
    /\ LET self == l[1]
           frame == [raw |-> Head(replies[l])]
           r == handle_message(NodeOf(self), seen_messages[self], self, frame)
       IN  /\ SetNode(self, r.ns)
           /\ seen_messages' = [seen_messages EXCEPT ![self] = r.seen]
           /\ WriteToPeers(self, r.out)
           /\ last' = Event("read_reply", self, <<l[2]>>, frame, r.out, r.disp)
    /\ replies' = [replies EXCEPT ![l] = Tail(@)]
    /\ UNCHANGED <<peer_writers, connections, discovered_peers, tasks, clock, calls,
                   handled>>

\* The envelopes the nodes have signed and begun to send.
WrittenEnvelopes ==
    UNION {{env \in handled[n].accepted : env.sender_id = n} : n \in Nodes}

\* The peers of a sender are connected in either order.
InitSend ==
    /\ subscribed_channels = [n \in Nodes |-> EmptyNode.sub]
    /\ seen_messages = [n \in Nodes |-> <<>>]
    /\ channel_keys = [n \in Nodes |-> EmptyNode.keys]
    /\ db_channels = [n \in Nodes |-> EmptyNode.ch]
    /\ db_members = [n \in Nodes |-> EmptyNode.mem]
    /\ db_messages = [n \in Nodes |-> EmptyNode.msgs]
    /\ surfaced = [n \in Nodes |-> EmptyNode.ui]
    /\ handled = [n \in Nodes |-> NothingHandled]
    /\ \E first \in Nodes \ Senders :
           peer_writers = [n \in Nodes |->
                              [p \in Nodes \ {n} |-> IF p = first THEN 0 ELSE 1]]
    /\ connections = [n \in Nodes |-> {Connection(p, peer_writers[n][p]) : p \in Nodes \ {n}}]
    /\ discovered_peers = [n \in Nodes |-> get_connected_peers(peer_writers[n])]
    /\ tasks = [n \in Nodes |-> NoTasks]
    /\ net = [l \in Links |-> <<>>]
    /\ replies = [l \in Links |-> <<>>]
    /\ clock = 1
    /\ calls = 0
    /\ last = Event("start", "", <<>>, EmptyDict, <<>>, "")

NextSend ==
    \/ \E n \in Senders, t \in Texts : BroadcastStart(n, "#general", t)
    \/ \E n \in Senders : \E task \in tasks[n].waiting : DrainReturns(n, task)
    \/ \E l \in Links : l[2] \notin SlowPeers /\ Deliver(l)
    \/ \E l \in Links : l[1] \in Nodes /\ ReadReply(l)
    \/ \E n \in Senders : \E env \in WrittenEnvelopes : Replay(n, env)

SpecSend == InitSend /\ [][NextSend]_vars

----------------------------------------------------------------------------
(* A private channel and its owner.  Node A has created #secret; it is the   *)
(* only holder of the key.  It broadcasts, and a connected peer writes back  *)
(* a copy of an envelope A has sent, possibly long after A sent it.          *)

MaxEchoes == 1         \* copies a peer writes back to a node

\* A connected peer writes to node n a copy of an envelope it has received.
Echo(n, env) ==
    /\ Len(net[<<Outsider, n>>]) + Len(replies[<<Outsider, n>>]) < MaxEchoes
    /\ net' = [net EXCEPT ![<<Outsider, n>>] = Append(@, env)]
    /\ last' = Event("echo", Outsider, <<n>>, env, <<env>>, "")
    /\ UNCHANGED <<subscribed_channels, seen_messages, channel_keys, db_channels,
                   db_members, db_messages, peer_writers, connections, discovered_peers,
                   tasks, replies, clock, calls, surfaced, handled>>

\* Every node started and connected, and create_channel("#secret", "private")
\* called on A.
InitEcho ==
    LET owner == create_channel(EmptyNode, "A", "#secret", "private").ns
        StartOf(n) == IF n = "A" THEN owner ELSE EmptyNode
    IN  /\ subscribed_channels = [n \in Nodes |-> StartOf(n).sub]
        /\ seen_messages = [n \in Nodes |-> <<>>]
        /\ channel_keys = [n \in Nodes |-> StartOf(n).keys]
        /\ db_channels = [n \in Nodes |-> StartOf(n).ch]
        /\ db_members = [n \in Nodes |-> StartOf(n).mem]
        /\ db_messages = [n \in Nodes |-> StartOf(n).msgs]
        /\ surfaced = [n \in Nodes |-> StartOf(n).ui]
        /\ handled = [n \in Nodes |-> NothingHandled]
        /\ peer_writers = [n \in Nodes |-> [p \in Nodes \ {n} |-> 0]]
        /\ connections = [n \in Nodes |-> {Connection(p, 0) : p \in Nodes \ {n}}]
        /\ discovered_peers = [n \in Nodes |-> InSomeOrder(Nodes \ {n})]
        /\ tasks = [n \in Nodes |-> NoTasks]
        /\ net = [l \in Links |-> <<>>]
        /\ replies = [l \in Links |-> <<>>]
        /\ clock = 1
        /\ calls = 0
        /\ last = Event("start", "", <<>>, EmptyDict, <<>>, "")

NextEcho ==
    \/ \E c \in Channels, t \in Texts : Broadcast("A", c, t)
    \/ \E l \in Links : Deliver(l)
    \/ \E env \in SentEnvelopes : Echo("A", env)

SpecEcho == InitEcho /\ [][NextEcho]_vars

----------------------------------------------------------------------------
(* Flooding of one message.  The nodes are connected in any way (peer_writers *)
(* holds the connections a node has opened); one node broadcasts once, or the *)
(* outside peer writes one envelope whose payload carries a ttl, and the      *)
(* readers go on reading: a reader task that has a frame to read reads it.    *)

FloodFrames ==
    {OutsiderSigned(9, Put(OutsiderPayload("#general"), "ttl", 2), INITIAL_TTL)}

Topologies == {topo \in [Nodes -> SUBSET Nodes] : \A n \in Nodes : n \notin topo[n]}

InitFlood ==
    /\ subscribed_channels = [n \in Nodes |-> EmptyNode.sub]
    /\ seen_messages = [n \in Nodes |-> <<>>]
    /\ channel_keys = [n \in Nodes |-> EmptyNode.keys]
    /\ db_channels = [n \in Nodes |-> EmptyNode.ch]
    /\ db_members = [n \in Nodes |-> EmptyNode.mem]
    /\ db_messages = [n \in Nodes |-> EmptyNode.msgs]
    /\ surfaced = [n \in Nodes |-> EmptyNode.ui]
    /\ handled = [n \in Nodes |-> NothingHandled]
    /\ \E topo \in Topologies :
           /\ peer_writers = [n \in Nodes |-> [p \in topo[n] |-> 0]]
           /\ connections = [n \in Nodes |-> {Connection(p, 0) : p \in topo[n]}]
           /\ discovered_peers = [n \in Nodes |-> InSomeOrder(topo[n])]
    /\ tasks = [n \in Nodes |-> NoTasks]
    /\ net = [l \in Links |-> <<>>]
    /\ replies = [l \in Links |-> <<>>]
    /\ clock = 1
    /\ calls = 0
    /\ last = Event("start", "", <<>>, EmptyDict, <<>>, "")

ReadersRead == \E l \in Links : Deliver(l)

NextFlood ==
    \/ \E n \in Nodes, t \in Texts : calls = 0 /\ Broadcast(n, "#general", t)
    \/ \E frame \in FloodFrames : calls = 0 /\ Inject(frame)
    \/ ReadersRead

SpecFlood == InitFlood /\ [][NextFlood]_vars /\ WF_vars(ReadersRead)

----------------------------------------------------------------------------
(* Properties *)

\* What a node holds, and what it has written to its peers and they have not read.
NodeState(n) == <<subscribed_channels[n], seen_messages[n], channel_keys[n],
                  db_channels[n], db_members[n], db_messages[n], surfaced[n]>>
OutLinks(n) == [p \in Nodes \ {n} |-> net[<<n, p>>]]

PayloadOf(frame) == Get(frame, "payload", EmptyDict)
ChannelIdOf(frame) == Get(PayloadOf(frame), "channel_id", NoneStr)
ContentOf(frame) == Get(PayloadOf(frame), "content", NoneVal)

\* The envelope carries a signature made with the key of its sender_id over its payload.
SignedBySender(env) ==
    /\ {"payload", "sender_id", "signature"} \subseteq DOMAIN env
    /\ env.signature = sign_data(env.sender_id, env.payload)

\* C1: every envelope that handle_message surfaces to the UI callback carries a
\* valid signature of its sender_id over its payload; an envelope with a missing
\* or invalid signature is never surfaced.
C1_SurfacedWereVerified ==
    \A n \in Nodes : \A i \in 1..Len(surfaced[n]) :
        surfaced[n][i].via = "recv" => SignedBySender(surfaced[n][i].env)

\* A node has surfaced a received envelope and has just dropped one for its signature.
C1_Witness ==
    /\ last.op = "deliver" /\ last.disp = "bad_signature"
    /\ \E i \in 1..Len(surfaced[last.node]) : surfaced[last.node][i].via = "recv"

\* C2: a frame whose channel_id is not in subscribed_channels when it is read
\* changes nothing at the node (seen, Store, UI, keys) and nothing is forwarded.
C2_UnsubscribedLeavesNoTrace ==
    [][\A n \in Nodes :
          (/\ last'.op = "deliver" /\ last'.node = n
           /\ ChannelIdOf(last'.msg) # NoneStr
           /\ ChannelIdOf(last'.msg) \notin subscribed_channels[n])
          => (NodeState(n)' = NodeState(n) /\ OutLinks(n)' = OutLinks(n))]_vars

\* A node has just read a validly signed frame of a node on a channel it is not
\* subscribed to.
C2_Witness ==
    /\ last.op = "deliver" /\ last.disp = "not_subscribed"
    /\ last.msg.sender_id \in Nodes
    /\ SignedBySender(last.msg)

\* C3: a frame whose msg_id is in seen when it is read is dropped: nothing is
\* surfaced, stored, added to seen or forwarded.
C3_DuplicateIsDropped ==
    [][\A n \in Nodes :
          (/\ last'.op = "deliver" /\ last'.node = n
           /\ "msg_id" \in DOMAIN last'.msg
           /\ Contains(seen_messages[n], last'.msg.msg_id))
          => (NodeState(n)' = NodeState(n) /\ OutLinks(n)' = OutLinks(n))]_vars

\* A node has just dropped a validly signed frame on a subscribed channel as a
\* duplicate, having accepted the msg_id before.
C3_Witness ==
    /\ last.op = "deliver" /\ last.disp = "duplicate"
    /\ \E i \in 1..Len(db_messages[last.node]) :
           db_messages[last.node][i].msg_id = last.msg.msg_id

\* C4: every envelope a node forwards carries the ttl of the envelope it received
\* minus one, and that is >= 0; an envelope received with ttl 0 is not forwarded.
C4_ForwardedTtlIsDecremented ==
    last.op = "deliver" =>
        /\ \A i \in 1..Len(last.out) :
               /\ Get(last.out[i], "ttl", 0) = Get(last.msg, "ttl", 0) - 1
               /\ Get(last.out[i], "ttl", 0) >= 0
        /\ (Get(last.msg, "ttl", 0) = 0 => last.out = <<>>)

\* C5: a forwarded envelope has the msg_id, sender_id, signature and payload of
\* the envelope that was received, so its signature verifies at the next hop.
C5_ForwardingKeepsSignedFields ==
    last.op = "deliver" =>
        \A i \in 1..Len(last.out) :
            /\ last.out[i].msg_id = last.msg.msg_id
            /\ last.out[i].sender_id = last.msg.sender_id
            /\ last.out[i].signature = last.msg.signature
            /\ last.out[i].payload = last.msg.payload
            /\ SignedBySender(last.out[i])

\* C6: every message row a node stores for a private channel (one it holds the
\* key of) has the ciphertext as content, a nonce and is_encrypted set.
C6_PrivateRowsAreCiphertext ==
    \A n \in Nodes : \A i \in 1..Len(db_messages[n]) :
        LET row == db_messages[n][i]
        IN  has_channel_key(channel_keys[n], row.channel_id) =>
                /\ row.content.kind = "ct"
                /\ "nonce" \in DOMAIN row
                /\ row.is_encrypted

\* C7: a node that holds no key of a private channel has no chat message of that
\* channel in its Store and has surfaced none to its UI.
C7_KeylessNodeHoldsNoPrivateMessage ==
    \A n \in Nodes :
        /\ \A i \in 1..Len(db_messages[n]) :
               db_messages[n][i].content.kind = "ct"
                   => has_channel_key(channel_keys[n], db_messages[n][i].channel_id)
        /\ \A i \in 1..Len(surfaced[n]) :
               (surfaced[n][i].via = "recv" /\ ContentOf(surfaced[n][i].env).kind = "ct")
                   => has_channel_key(channel_keys[n], ChannelIdOf(surfaced[n][i].env))

\* The Store of n names n as owner_node_id of channel c.
StoreNamesOwner(n, c) ==
    c \in DOMAIN db_channels[n] /\ db_channels[n][c].owner_node_id = n

\* C8: invite_peer_to_channel called by a node its Store does not name as the
\* owner of the channel emits nothing: no msg_id is taken or added to seen,
\* nothing is written to a link, and no key, member or channel record changes
\* anywhere.
C8_NonOwnerInviteEmitsNothing ==
    [][(last'.op = "invite" /\ ~StoreNamesOwner(last'.node, last'.arg[1]))
          => UNCHANGED <<subscribed_channels, seen_messages, channel_keys, db_channels,
                         db_members, db_messages, peer_writers, net, clock, surfaced,
                         handled>>]_vars

\* A node has just been refused an invite to a channel that another node owns.
C8_Witness ==
    /\ last.op = "invite" /\ last.disp = "not_owner"
    /\ \E m \in Nodes \ {last.node} : StoreNamesOwner(m, last.arg[1])
    /\ \A l \in Links : net[l] = <<>>

\* The frame is an INVITE.
IsInvite(frame) ==
    ContentOf(frame).kind = "dict" /\ ContentOf(frame).type = "INVITE"

\* C9: a node that accepts an INVITE naming another node as target gains no key,
\* no member record and no subscription, stores and surfaces nothing, and
\* forwards the envelope with nothing but the ttl changed when the ttl is > 0.
C9_NonTargetInvite ==
    [][\A n \in Nodes :
          (/\ last'.op = "deliver" /\ last'.node = n /\ last'.disp = "accepted"
           /\ IsInvite(last'.msg)
           /\ ContentOf(last'.msg).target_node_id # n)
          => /\ channel_keys'[n] = channel_keys[n]
             /\ db_members'[n] = db_members[n]
             /\ subscribed_channels'[n] = subscribed_channels[n]
             /\ db_messages'[n] = db_messages[n]
             /\ surfaced'[n] = surfaced[n]
             /\ (last'.msg.ttl > 0 =>
                     last'.out = <<[last'.msg EXCEPT !.ttl = @ - 1]>>)]_vars

\* C10: a node that accepts a verified INVITE naming it as target, with the key
\* sealed for it, then holds the channel key, has the channel in its Store with
\* the type of the invite and the inviter as owner, is a member of it, is
\* subscribed to it, and has not stored the invite as a message.
C10_TargetJoinsByInvite ==
    [][\A n \in Nodes :
          (/\ last'.op = "deliver" /\ last'.node = n /\ last'.disp = "accepted"
           /\ IsInvite(last'.msg)
           /\ ContentOf(last'.msg).target_node_id = n
           /\ ContentOf(last'.msg).encrypted_key.to = n)
          => LET invite == ContentOf(last'.msg)
                 c == invite.channel_id
             IN  /\ c \in DOMAIN channel_keys'[n]
                 /\ channel_keys'[n][c] = invite.encrypted_key.key
                 /\ c \in DOMAIN db_channels'[n]
                 /\ db_channels'[n][c].type = invite.channel_type
                 /\ db_channels'[n][c].owner_node_id = last'.msg.sender_id
                 /\ <<c, n>> \in DOMAIN db_members'[n]
                 /\ c \in subscribed_channels'[n]
                 /\ \A i \in 1..Len(db_messages'[n]) :
                        db_messages'[n][i].msg_id # last'.msg.msg_id]_vars

\* The message with this msg_id has been passed to the UI callback of node n.
SurfacedAt(n, msg_id) ==
    \E i \in 1..Len(surfaced[n]) : Get(surfaced[n][i].env, "msg_id", 0) = msg_id

\* Nothing is in flight on any link.
Quiescent == \A l \in DOMAIN net : net[l] = <<>>

\* The msg_ids of the envelopes node n has broadcast itself.
BroadcastBy(n) ==
    {surfaced[n][i].env.msg_id : i \in {j \in 1..Len(surfaced[n]) : surfaced[n][j].via = "bcast"}}

\* C11: on the line A-B-C-D-E, once every frame in flight has been read, each
\* message A broadcast (ttl 3) has been surfaced by A, B, C and D and not by E.
C11_LineTtlBound ==
    Quiescent =>
        \A id \in BroadcastBy("A") :
            /\ \A n \in {"A", "B", "C", "D"} : SurfacedAt(n, id)
            /\ ~SurfacedAt("E", id)

\* C12: on the ring A-B-C-A, while a node's seen window has not overflowed, the
\* node surfaces no msg_id twice; a copy of its own broadcast that comes back to
\* it is dropped as a duplicate and not forwarded; and once every frame has been
\* read, every node has surfaced every broadcast.
C12_RingSurfacesOnce ==
    /\ \A n \in Nodes :
           Len(seen_messages[n]) < SEEN_MESSAGES_MAX_SIZE =>
               /\ \A i, j \in 1..Len(surfaced[n]) :
                      i # j => surfaced[n][i].env.msg_id # surfaced[n][j].env.msg_id
               /\ (/\ last.op = "deliver" /\ last.node = n
                   /\ Get(last.msg, "sender_id", "") = n)
                      => (last.disp = "duplicate" /\ last.out = <<>>)
    /\ Quiescent =>
           \A o \in Nodes : \A id \in BroadcastBy(o) : \A n \in Nodes : SurfacedAt(n, id)

\* A has broadcast once, B and C have surfaced the message, and A has just
\* dropped the copy that came back.
C12_Witness ==
    /\ last.op = "deliver" /\ last.node = "A" /\ last.disp = "duplicate"
    /\ last.msg.sender_id = "A"
    /\ Len(surfaced["A"]) = 1
    /\ SurfacedAt("B", last.msg.msg_id) /\ SurfacedAt("C", last.msg.msg_id)
    /\ Len(surfaced["B"]) = 1 /\ Len(surfaced["C"]) = 1
    /\ Quiescent

\* The chat_message envelope arrives at node n, which discarded it earlier for
\* its channel, has the channel in its subscribed set now and has taken no
\* envelope of that msg_id as new.
LateArrival(n, frame) ==
    /\ frame \in handled[n].filtered
    /\ Get(PayloadOf(frame), "type", NoneStr) = "chat_message"
    /\ ChannelIdOf(frame) \in subscribed_channels[n]
    /\ \A e \in handled[n].accepted : e.msg_id # frame.msg_id

\* The node passes a frame it accepts to the UI: it is no INVITE, and the node
\* either holds the key of its channel and the content decrypts, or holds no
\* key and its Store does not mark the channel private.
PolicySurfaces(n, frame) ==
    LET c == ChannelIdOf(frame)
    IN  /\ ~IsInvite(frame)
        /\ IF c \in DOMAIN channel_keys[n]
           THEN decrypt_message(channel_keys[n][c], ContentOf(frame),
                                Get(PayloadOf(frame), "nonce", NoneVal)) # NoneVal
           ELSE ~(c \in DOMAIN db_channels[n] /\ db_channels[n][c].type = "private")

RowsWithId(rows, msg_id) == Cardinality({i \in 1..Len(rows) : rows[i].msg_id = msg_id})

\* C14: the messages table of every store holds at most one row per msg_id, and
\* store_message of an envelope whose msg_id is in the table leaves the table as
\* it is and returns False.
C14_StoreIdempotence ==
    [][/\ \A n \in DOMAIN db_messages' : \A i \in 1..Len(db_messages'[n]) :
              RowsWithId(db_messages'[n], db_messages'[n][i].msg_id) = 1
       /\ \A n \in DOMAIN db_messages :
              (/\ last'.op = "store" /\ last'.node = n
               /\ RowsWithId(db_messages[n], last'.msg.msg_id) > 0)
              => (db_messages'[n] = db_messages[n] /\ last'.disp = "ignored")
       /\ \A n \in DOMAIN db_messages :
              (/\ last'.op = "store" /\ last'.node = n
               /\ RowsWithId(db_messages[n], last'.msg.msg_id) = 0)
              => (Len(db_messages'[n]) = Len(db_messages[n]) + 1
                  /\ last'.disp = "inserted")]_vars

\* The same envelope has just been stored a second time.
C14_Witness ==
    /\ last.op = "store" /\ last.disp = "ignored"
    /\ \E i \in 1..Len(db_messages[last.node]) :
           /\ db_messages[last.node][i].msg_id = last.msg.msg_id
           /\ db_messages[last.node][i].signature = last.msg.signature
           /\ db_messages[last.node][i].timestamp = last.msg.payload.timestamp

\* The rows of channel c in the store of node n, as get_messages_for_channel
\* returns a row.
ChannelHistory(n, c) ==
    {HistoryDict(db_messages[n][i]) :
        i \in {j \in 1..Len(db_messages[n]) : db_messages[n][j].channel_id = c}}

\* C15: get_messages_for_channel(c, last_n) returns min(last_n, number of rows
\* of c) different rows of channel c, none of another channel, no omitted row of
\* c being newer than a returned one, ordered by timestamp oldest first.
C15_HistoryIsLatestOldestFirst ==
    last.op = "history" =>
        LET c == last.arg[1]
            last_n == last.arg[2]
            out == last.out
            all == ChannelHistory(last.node, c)
            got == {out[i] : i \in 1..Len(out)}
        IN  /\ got \subseteq all
            /\ Cardinality(got) = Len(out)
            /\ Len(out) = Min(last_n, Cardinality(all))
            /\ \A i \in 1..Len(out) : \A j \in (i + 1)..Len(out) :
                   out[i].timestamp <= out[j].timestamp
            /\ \A r \in all \ got : \A g \in got : r.timestamp <= g.timestamp

\* The history of a channel with an older and a newer message was asked for with
\* a limit below the number of its messages, while the store holds another
\* channel's message too.
C15_Witness ==
    /\ last.op = "history" /\ Len(last.out) = 1 /\ last.arg[2] = 1
    /\ \E r \in ChannelHistory(last.node, last.arg[1]) :
           r.timestamp < last.out[1].timestamp
    /\ \E i \in 1..Len(db_messages[last.node]) :
           db_messages[last.node][i].channel_id # last.arg[1]

\* What the claim compares of a message row.
MessageProjection(row) ==
    [k \in {"msg_id", "channel_id", "sender_id", "timestamp", "content", "signature",
            "is_encrypted", "nonce"} |-> Get(row, k, NoneVal)]
Projections(rows, c) ==
    {MessageProjection(rows[i]) :
        i \in {j \in 1..Len(rows) : c = NoneStr \/ rows[j].channel_id = c}}

\* C16: after the messages exported from one store have been imported into a
\* fresh store, the fresh store holds the same message projections as the
\* exported part of the original.
C16_ExportImportRoundTrip ==
    last.op = "import" =>
        Projections(db_messages[last.node], NoneStr)
            = Projections(db_messages[last.arg[1]], last.arg[2])

\* C17: a restart of a node on the same Store file leaves its messages table as
\* it was: the history of #general is the same list of messages, oldest first;
\* and the seen deque of the restarted node is empty.
C17_RestartKeepsStore ==
    [][\A n \in Nodes :
          (last'.op = "restart" /\ last'.node = n)
          => /\ db_messages'[n] = db_messages[n]
             /\ get_messages_for_channel(db_messages'[n], "#general", 50)
                    = get_messages_for_channel(db_messages[n], "#general", 50)
             /\ \A h \in get_messages_for_channel(db_messages'[n], "#general", 50) :
                    /\ {h[i].msg_id : i \in 1..Len(h)}
                           = {r.msg_id : r \in ChannelHistory(n, "#general")}
                    /\ \A i \in 1..Len(h) : \A j \in (i + 1)..Len(h) :
                           h[i].timestamp <= h[j].timestamp
             /\ seen_messages'[n] = <<>>]_vars

\* A node that had accepted and stored two messages of #general has just been
\* restarted.
C17_Witness ==
    /\ last.op = "restart"
    /\ Cardinality(ChannelHistory(last.node, "#general")) = 2
    /\ handled[last.node].accepted # {}
    /\ seen_messages[last.node] = <<>>

\* C18: #general is in the subscribed set of every node, whatever joins and
\* leaves were called on it.
C18_GeneralIsNeverLeft ==
    \A n \in Nodes : "#general" \in subscribed_channels[n]

\* C19: create_channel on a channel the Store has a record of returns False and
\* leaves the keys, the channel records, the member records and the subscribed
\* set of the node as they were.
C19_CreateExistingFails ==
    [][\A n \in Nodes :
          (/\ last'.op = "create" /\ last'.node = n
           /\ last'.arg[1] \in DOMAIN db_channels[n])
          => /\ last'.disp = "exists"
             /\ channel_keys'[n] = channel_keys[n]
             /\ db_channels'[n] = db_channels[n]
             /\ db_members'[n] = db_members[n]
             /\ subscribed_channels'[n] = subscribed_channels[n]]_vars

\* create_channel has just failed on a channel the node has a record of, with a
\* type other than the recorded one.
C19_Witness ==
    /\ last.op = "create" /\ last.disp = "exists"
    /\ last.arg[1] \in DOMAIN db_channels[last.node]
    /\ db_channels[last.node][last.arg[1]].type # last.arg[2]

\* C20: when create_channel(c, "private") has succeeded on a node, the node holds
\* a 32-byte key for c, its Store records c as private with the node as owner
\* and the node as member with role owner, and c is in its subscribed set.
C20_CreatePrivate ==
    [][\A n \in Nodes :
          (/\ last'.op = "create" /\ last'.node = n /\ last'.disp = "created"
           /\ last'.arg[2] = "private")
          => LET c == last'.arg[1]
             IN  /\ c \in DOMAIN channel_keys'[n]
                 /\ channel_keys'[n][c].kind = "key" /\ channel_keys'[n][c].len = 32
                 /\ c \in DOMAIN db_channels'[n]
                 /\ db_channels'[n][c].type = "private"
                 /\ db_channels'[n][c].owner_node_id = n
                 /\ <<c, n>> \in DOMAIN db_members'[n]
                 /\ db_members'[n][<<c, n>>] = "owner"
                 /\ c \in subscribed_channels'[n]]_vars

\* create_channel(c, "private") has just succeeded on a node that was not
\* subscribed to c.
C20_Witness ==
    /\ last.op = "create" /\ last.disp = "created" /\ last.arg[2] = "private"
    /\ has_channel_key(channel_keys[last.node], last.arg[1])
    /\ last.arg[1] \in subscribed_channels[last.node]

\* C21: an INVITE whose signer is not the owner of the channel it names gives
\* its target no key, no channel record, no member record and no subscription.
C21_NonOwnerInviteIsDropped ==
    [][\A n \in Nodes :
          (/\ last'.op = "deliver" /\ last'.node = n
           /\ IsInvite(last'.msg)
           /\ ContentOf(last'.msg).target_node_id = n
           /\ ~(/\ last'.msg.sender_id \in Nodes
                /\ StoreNamesOwner(last'.msg.sender_id, ContentOf(last'.msg).channel_id)))
          => /\ channel_keys'[n] = channel_keys[n]
             /\ db_channels'[n] = db_channels[n]
             /\ db_members'[n] = db_members[n]
             /\ subscribed_channels'[n] = subscribed_channels[n]]_vars

\* A node has just taken as new a validly signed INVITE that names it as target,
\* seals a key for it, and is signed by a peer that owns no channel.
C21_Witness ==
    /\ last.op = "deliver" /\ last.disp = "accepted"
    /\ IsInvite(last.msg)
    /\ ContentOf(last.msg).target_node_id = last.node
    /\ ContentOf(last.msg).encrypted_key.to = last.node
    /\ SignedBySender(last.msg)
    /\ last.msg.sender_id \notin Nodes

\* The node holds the key of the channel of the frame and the content of the
\* frame is no ciphertext made with that key and the nonce of the frame.
DecryptionFails(n, frame) ==
    /\ has_channel_key(channel_keys[n], ChannelIdOf(frame))
    /\ ~IsInvite(frame)
    /\ LET content == ContentOf(frame)
       IN  ~(/\ content.kind = "ct"
             /\ content.key = get_channel_key(channel_keys[n], ChannelIdOf(frame))
             /\ content.nonce = Get(PayloadOf(frame), "nonce", 0))

\* C22: a frame on a channel whose key the node holds, with a content that does
\* not decrypt under that key, is neither surfaced nor stored.
C22_UndecryptableIsDropped ==
    [][\A n \in Nodes :
          (/\ last'.op = "deliver" /\ last'.node = n
           /\ DecryptionFails(n, last'.msg))
          => /\ surfaced'[n] = surfaced[n]
             /\ db_messages'[n] = db_messages[n]]_vars

\* A node that holds the key of a channel has just taken as new a validly signed
\* frame on that channel, and the content did not decrypt.
C22_Witness ==
    /\ last.op = "deliver" /\ last.disp = "accepted"
    /\ DecryptionFails(last.node, last.msg)
    /\ \A i \in 1..Len(surfaced[last.node]) : surfaced[last.node][i].env # last.msg

\* C28: a frame whose signature is not one of its sender_id over its payload
\* changes nothing at the node that reads it (seen, Store, subscribed set, keys,
\* UI) and nothing is forwarded.
C28_BadSignatureLeavesNoTrace ==
    [][\A n \in Nodes :
          (/\ last'.op = "deliver" /\ last'.node = n
           /\ "raw" \notin DOMAIN last'.msg
           /\ ~SignedBySender(last'.msg))
          => (NodeState(n)' = NodeState(n) /\ OutLinks(n)' = OutLinks(n))]_vars

\* A node has just dropped for its signature a frame that names a node as
\* sender, on a channel the node is subscribed to, with a msg_id not in seen.
C28_Witness ==
    /\ last.op = "deliver" /\ last.disp = "bad_signature"
    /\ "signature" \in DOMAIN last.msg
    /\ last.msg.sender_id \in Nodes
    /\ ChannelIdOf(last.msg) \in subscribed_channels[last.node]
    /\ ~Contains(seen_messages[last.node], last.msg.msg_id)

\* The connections node n has open to peer p.
LinksTo(n, p) == {c \in connections[n] : c.peer = p}

\* C23: a node has at most one open connection to a peer, in every interleaving
\* of the connect_to_peer calls for that peer.
C23_AtMostOneLink ==
    \A n \in Nodes : \A p \in Nodes : Cardinality(LinksTo(n, p)) <= 1

\* C24: when the removal of a peer has been handled, the peer is not among the
\* connected peers of the node.
C24_DepartedPeerIsDisconnected ==
    (last.op = "peer_removed" /\ last.out # <<>>)
        => last.out[1] \notin DOMAIN peer_writers[last.node]

\* The steps of the coroutines on the event loop.
LoopOps == {"peer_added", "peer_removed", "connection_opened", "connection_failed",
            "connection_closed", "broadcast"}

\* C27: the callback on the Zeroconf thread leaves the tracked peers and the peer
\* table as they are and schedules the handler named by the state change, with
\* the service name, on the event loop; every change of the tracked peers or of
\* the peer table is a step of a coroutine on the event loop.
C27_DiscoveryIsMarshalled ==
    [][\A n \in Nodes :
          /\ (last'.op = "service_state_change" /\ last'.node = n)
                => /\ discovered_peers'[n] = discovered_peers[n]
                   /\ peer_writers'[n] = peer_writers[n]
                   /\ connections'[n] = connections[n]
                   /\ tasks'[n].waiting = tasks[n].waiting
                   /\ \/ /\ last'.arg[2] = "Updated"
                         /\ tasks'[n].ready = tasks[n].ready
                      \/ /\ last'.arg[2] # "Updated"
                         /\ Len(tasks'[n].ready) = Len(tasks[n].ready) + 1
                         /\ SubSeq(tasks'[n].ready, 1, Len(tasks[n].ready)) = tasks[n].ready
                         /\ tasks'[n].ready[Len(tasks'[n].ready)].name = last'.arg[1]
                         /\ tasks'[n].ready[Len(tasks'[n].ready)].coro =
                                IF last'.arg[2] = "Added" THEN "_handle_peer_added"
                                ELSE "_handle_peer_removed"
          /\ (discovered_peers'[n] # discovered_peers[n] \/ peer_writers'[n] # peer_writers[n])
                => last'.op \in LoopOps]_vars

\* The Zeroconf thread has just reported the removal of a service while the node
\* tracks a peer and a coroutine scheduled before has not been started.
C27_Witness ==
    /\ last.op = "service_state_change" /\ last.arg[2] = "Removed"
    /\ discovered_peers[last.node] # <<>>
    /\ Len(tasks[last.node].ready) = 2

\* C30: the removal of service name `name` takes from the tracked peers the peer
\* announced under that name and no other, and nothing when none was.
C30_RemovedByServiceName ==
    [][\A n \in Nodes :
          (last'.op = "peer_removed" /\ last'.node = n)
          => LET info == get_service_info(last'.arg[1])
                 announced == IF info = NoneVal THEN NoneStr ELSE info.id
             IN  \A p \in Nodes :
                     Contains(discovered_peers'[n], p)
                         <=> (Contains(discovered_peers[n], p) /\ p # announced)]_vars

\* C25: for every frame read on a link the reader has written one reply, ACK
\* when the frame is a JSON object and ERROR when it does not parse.
C25_ReplyPerFrame ==
    last.op = "deliver" =>
        LET l == <<last.arg[1], last.node>>
        IN  /\ replies[l] # <<>>
            /\ replies[l][Len(replies[l])] =
                   IF "raw" \in DOMAIN last.msg THEN "ERROR" ELSE "ACK"

\* C26: a broadcast that waits for a peer that never reads has been written to
\* every other connected peer and has been delivered to the UI of the sender.
C26_BroadcastNeverWaits ==
    \A n \in Nodes : \A task \in tasks[n].waiting :
        (task.coro = "broadcast_message" /\ task.peer \in SlowPeers)
            => /\ task.rest = <<>>
               /\ SurfacedAt(n, task.message.msg_id)

\* The step starts a broadcast: the msg_id is in seen when the step, which holds
\* the first write to a link, is over.
SeenBeforeFirstWrite ==
    last'.op = "broadcast" => Contains(seen_messages'[last'.node], last'.msg.msg_id)

\* The step reads, at node n, a copy of an envelope n has signed and sent.
EchoReadAt(n) ==
    /\ last'.op = "deliver" /\ last'.node = n
    /\ last'.msg \in handled[n].accepted
    /\ last'.msg.sender_id = n

\* C29 as stated: the msg_id of a broadcast is in seen before the first frame is
\* written, and a copy that comes back at any later time is dropped as a
\* duplicate.
C29_EchoIsAlwaysDropped ==
    [][/\ SeenBeforeFirstWrite
       /\ \A n \in Nodes :
              EchoReadAt(n)
                  => (last'.disp = "duplicate" /\ NodeState(n)' = NodeState(n))]_vars

\* C29, amended: the msg_id of a broadcast is in seen before the first frame is
\* written, and a copy that comes back while the msg_id is still in seen is
\* dropped as a duplicate, during the fan-out and after it.
C29_EchoIsDroppedWhileSeen ==
    [][/\ SeenBeforeFirstWrite
       /\ \A n \in Nodes :
              (EchoReadAt(n) /\ Contains(seen_messages[n], last'.msg.msg_id))
                  => (last'.disp = "duplicate" /\ NodeState(n)' = NodeState(n))]_vars

\* A node has just dropped as a duplicate a copy of an envelope whose broadcast
\* is still waiting in drain().
C29_Witness ==
    /\ last.op = "deliver" /\ last.disp = "duplicate"
    /\ last.msg.sender_id = last.node
    /\ \E task \in tasks[last.node].waiting : task.message = last.msg

\* The frame is one handle_message takes as new at node n: validly signed, a
\* chat_message on a subscribed channel, with a msg_id not in seen.
ValidAndNew(n, frame) ==
    /\ "raw" \notin DOMAIN frame
    /\ verify_message(frame)
    /\ Get(PayloadOf(frame), "type", NoneStr) = "chat_message"
    /\ ChannelIdOf(frame) \in subscribed_channels[n]
    /\ ~Contains(seen_messages[n], frame.msg_id)

\* C31: a frame that fails signature verification or decryption is dropped on
\* its own (nothing surfaced, nothing stored); the link it was read from stays
\* up with the frames behind it still to be read; and a valid new frame read
\* later from a link on which such a frame was dropped is accepted.
C31_AuthFailureKeepsLink ==
    [][\A n \in Nodes :
          (last'.op = "deliver" /\ last'.node = n)
          => LET l == <<last'.arg[1], n>>
             IN  /\ fails_authentication(NodeOf(n), last'.msg)
                        => /\ surfaced'[n] = surfaced[n]
                           /\ db_messages'[n] = db_messages[n]
                           /\ net'[l] = Tail(net[l])
                           /\ peer_writers' = peer_writers
                           /\ connections' = connections
                 /\ (last'.arg[1] \in handled[n].failed /\ ValidAndNew(n, last'.msg))
                        => /\ last'.disp = "accepted"
                           /\ Contains(seen_messages'[n], last'.msg.msg_id)]_vars

\* A node has just accepted and surfaced a valid frame read from a link from
\* which it had read, and dropped, a frame that failed verification.
C31_Witness ==
    /\ last.op = "deliver" /\ last.disp = "accepted"
    /\ last.arg[1] \in handled[last.node].failed
    /\ SignedBySender(last.msg)
    /\ SurfacedAt(last.node, last.msg.msg_id)

\* The callback of Gossip fails on the frame at node n: _handle_invite raises
\* (the frame is an INVITE for n and n has no key pair to open it with), or
\* store_message cannot write the content.
CallbackFails(n, frame) ==
    \/ /\ IsInvite(frame)
       /\ ContentOf(frame).target_node_id = n
       /\ "encryption_private_key" \notin DOMAIN Identity(n)
    \/ /\ ~IsInvite(frame)
       /\ ContentOf(frame).kind \notin {"str", "ct"}

\* C32: an envelope a node takes as new, whose storing fails or on which the
\* callback raises, is forwarded all the same when its ttl is above 0.
C32_FailureDoesNotStopForwarding ==
    (/\ last.op = "deliver" /\ last.disp = "accepted"
     /\ CallbackFails(last.node, last.msg)
     /\ Get(last.msg, "ttl", 0) > 0)
        => /\ last.out # <<>>
           /\ \A i \in 1..Len(last.out) : last.out[i].msg_id = last.msg.msg_id

\* `new` is `old` after x was inserted at its end, the oldest entry having left
\* when `old` was full.
FifoInsert(old, new, x) ==
    LET k == Min(Len(old) + 1, SEEN_MESSAGES_MAX_SIZE)
    IN  /\ Len(new) = k
        /\ new[k] = x
        /\ \A i \in 1..(k - 1) : new[i] = old[Len(old) - (k - 1) + i]

\* The step inserts a msg_id into seen at node n: n signs and sends an envelope,
\* or takes a received one as new.
InsertsIntoSeen(n) ==
    /\ last'.node = n
    /\ \/ last'.op \in {"broadcast", "invite"} /\ last'.disp = "sent"
       \/ last'.op = "deliver" /\ last'.disp = "accepted"

\* C33: seen never holds more than SEEN_MESSAGES_MAX_SIZE ids; an insert puts
\* the id at the end and, when seen is full, takes the oldest away and nothing
\* else, so that seen is always the most recently inserted ids in their order;
\* no other step changes seen.
C33_SeenIsBoundedFifo ==
    [][\A n \in Nodes :
          /\ Len(seen_messages[n]) <= SEEN_MESSAGES_MAX_SIZE
          /\ Len(seen_messages'[n]) <= SEEN_MESSAGES_MAX_SIZE
          /\ IF InsertsIntoSeen(n)
             THEN FifoInsert(seen_messages[n], seen_messages'[n], last'.msg.msg_id)
             ELSE seen_messages'[n] = seen_messages[n]]_vars

\* A node whose seen was full has just inserted a msg_id, and the oldest one it
\* had taken is no longer in seen.
C33_Witness ==
    /\ last.op \in {"broadcast", "deliver"} /\ last.disp \in {"sent", "accepted"}
    /\ Len(seen_messages[last.node]) = SEEN_MESSAGES_MAX_SIZE
    /\ seen_messages[last.node][SEEN_MESSAGES_MAX_SIZE] = last.msg.msg_id
    /\ \E e \in handled[last.node].accepted : ~Contains(seen_messages[last.node], e.msg_id)

\* C34: when a node takes as new an envelope on a channel whose key it holds,
\* the envelope is after the Node callback what it was before it, and the row
\* stored for it has the content that was received.
C34_CallbackKeepsEnvelope ==
    [][\A n \in Nodes :
          (/\ last'.op = "deliver" /\ last'.node = n /\ last'.disp = "accepted"
           /\ ~IsInvite(last'.msg)
           /\ has_channel_key(channel_keys[n], ChannelIdOf(last'.msg)))
          => /\ _on_gossip_message_received(NodeOf(n), n, last'.msg, "recv").message
                    = last'.msg
             /\ \A i \in 1..Len(db_messages'[n]) :
                    db_messages'[n][i].msg_id = last'.msg.msg_id
                        => db_messages'[n][i].content = ContentOf(last'.msg)]_vars

\* C35: after a single broadcast, in any topology, a node passes a msg_id on to
\* its peers at most once, and when the readers keep reading the system comes
\* to a state, and stays in it, in which no frame is in flight.
C35_FloodingTerminates ==
    /\ [][\A n \in Nodes :
              (last'.op = "deliver" /\ last'.node = n /\ last'.out # <<>>)
                  => last'.msg.msg_id \notin handled[n].forwarded]_vars
    /\ <>[]Quiescent

\* One envelope has been sent, a node has passed it on to a peer, and every
\* frame has been read.
C35_Witness ==
    /\ calls = 1 /\ last.op = "deliver"
    /\ Quiescent
    /\ \E n \in Nodes : /\ handled[n].forwarded # {}
                         /\ peer_writers[n] # EmptyDict

\* Node n has created channel c as a private channel: it holds the key it
\* generated for c.
CreatedPrivate(n, c) ==
    /\ c \in DOMAIN channel_keys[n]
    /\ channel_keys[n][c] = generate_channel_key(n, c)

\* C36: a node that has created a private channel has it recorded in its Store
\* as private with itself as owner in every later state, whatever messages it
\* has stored on the channel since, and an invite it calls is not refused.
C36_PrivateRecordIsStable ==
    \A n \in Nodes : \A c \in Channels :
        CreatedPrivate(n, c)
            => /\ c \in DOMAIN db_channels[n]
               /\ db_channels[n][c].type = "private"
               /\ db_channels[n][c].owner_node_id = n
               /\ (last.op = "invite" /\ last.node = n /\ last.arg[1] = c)
                      => last.disp = "sent"

\* C37: no step replaces or removes a channel key a node holds, changes the
\* role "owner" the node has recorded for itself on that channel, or takes the
\* node's ownership out of its channel record.
C37_KeyAndRoleAreStable ==
    [][\A n \in Nodes : \A c \in DOMAIN channel_keys[n] :
          /\ c \in DOMAIN channel_keys'[n]
          /\ channel_keys'[n][c] = channel_keys[n][c]
          /\ (<<c, n>> \in DOMAIN db_members[n] /\ db_members[n][<<c, n>>] = "owner")
                 => (<<c, n>> \in DOMAIN db_members'[n] /\ db_members'[n][<<c, n>>] = "owner")
          /\ StoreNamesOwner(n, c) => StoreNamesOwner(n, c)']_vars

\* C38: a node surfaces no two received envelopes that carry the same payload
\* and the same signature under different msg_ids.
C38_SignedPayloadSurfacedOnce ==
    \A n \in Nodes : \A i, j \in 1..Len(surfaced[n]) :
        (/\ i # j
         /\ surfaced[n][i].via = "recv" /\ surfaced[n][j].via = "recv"
         /\ surfaced[n][i].env.msg_id # surfaced[n][j].env.msg_id)
            => ~(/\ surfaced[n][i].env.payload = surfaced[n][j].env.payload
                 /\ surfaced[n][i].env.signature = surfaced[n][j].env.signature)

\* C39: when the Added event of a peer is handled at a node that tracks the
\* peer, has lost a connection to it and is neither connected to it nor dialing
\* it, the node dials the peer.
C39_LostLinkIsDialedAgain ==
    [][\A n \in Nodes :
          (last'.op = "peer_added" /\ last'.node = n)
          => LET info == get_service_info(last'.arg[1])
             IN  (/\ info # NoneVal
                  /\ info.id \in handled[n].lost
                  /\ Contains(discovered_peers[n], info.id)
                  /\ info.id \notin DOMAIN peer_writers[n]
                  /\ \A task \in tasks[n].waiting : task.peer # info.id)
                     => /\ last'.disp = "dialing"
                        /\ \E task \in tasks'[n].waiting : task.peer = info.id]_vars

\* The step calls join_channel(c) at node n: by the API, in create_channel, or
\* in the handling of an INVITE to c that names n.
CallsJoin(n, c) ==
    /\ last'.node = n
    /\ \/ last'.op \in {"join", "create"} /\ last'.arg[1] = c
       \/ /\ last'.op = "deliver" /\ IsInvite(last'.msg)
          /\ ContentOf(last'.msg).target_node_id = n
          /\ ContentOf(last'.msg).channel_id = c

\* C40: leave_channel(c) takes c out of the set the channel filter reads; c
\* comes back into it only by a call of join_channel(c); and a frame for c read
\* while c is out of it changes nothing at the node (UI, Store, seen, keys) and
\* is not forwarded.
C40_LeftChannelIsFiltered ==
    [][\A n \in Nodes : \A c \in Channels :
          /\ (last'.op = "leave" /\ last'.node = n /\ last'.arg[1] = c)
                 => c \notin subscribed_channels'[n]
          /\ (c \notin subscribed_channels[n] /\ c \in subscribed_channels'[n])
                 => CallsJoin(n, c)
          /\ (/\ last'.op = "deliver" /\ last'.node = n
              /\ ChannelIdOf(last'.msg) = c
              /\ c \notin subscribed_channels[n])
                 => /\ NodeState(n)' = NodeState(n)
                    /\ OutLinks(n)' = OutLinks(n)
                    /\ last'.out = <<>>]_vars

\* A node that has left #general, which it was subscribed to from its start,
\* has just read a validly signed, new frame of a node on #general and
\* discarded it.
C40_Witness ==
    /\ last.op = "deliver" /\ last.disp = "not_subscribed"
    /\ ChannelIdOf(last.msg) = "#general"
    /\ last.msg.sender_id \in Nodes /\ SignedBySender(last.msg)
    /\ ~Contains(seen_messages[last.node], last.msg.msg_id)
    /\ surfaced[last.node] = <<>>

====
